---------------------------- MODULE Spec2Model ----------------------------
(***************************************************************************)
(* JSON-Schema -> regular-expression compiler (guidance.rs,                *)
(* handle_types.rs, types.rs).                                             *)
(*                                                                         *)
(* A JSON value is a one-field record: [null |-> TRUE], [bool |-> b],      *)
(* [num |-> n], [str |-> s], [arr |-> <<v1, ...>>] or                      *)
(* [obj |-> << <<k1, v1>>, ... >>], the pairs of an object in the          *)
(* iteration order of serde_json::Map.                                     *)
(*                                                                         *)
(* A Rust String holding a regular expression is a sequence of tokens: a   *)
(* literal character, an escaped character ("\\{"), a character class      *)
(* ("[0-9]"), or one of the operators ( (?: ) | ? * + { } of the regex     *)
(* syntax.  format!/join/+= are concatenations of such sequences.          *)
(***************************************************************************)
EXTENDS Integers, Sequences, FiniteSets, TLC

VARIABLES schema, wsOpt, pc, keyword, result

vars == <<schema, wsOpt, pc, keyword, result>>

(***************************************************************************)
(* serde_json::Value                                                       *)
(***************************************************************************)
Null == [null |-> TRUE]
Bool(b) == [bool |-> b]
Num(n) == [num |-> n]
Str(s) == [str |-> s]
Arr(xs) == [arr |-> xs]
Obj(kvs) == [obj |-> kvs]

IsNull(v) == "null" \in DOMAIN v
IsBool(v) == "bool" \in DOMAIN v
IsNum(v) == "num" \in DOMAIN v
IsStr(v) == "str" \in DOMAIN v
IsArr(v) == "arr" \in DOMAIN v
IsObj(v) == "obj" \in DOMAIN v

\* Option<T>: <<>> is None, <<x>> is Some(x).
None == <<>>
Some(x) == <<x>>
IsSome(o) == Len(o) = 1
unwrap_or(o, d) == IF Len(o) = 1 THEN o[1] ELSE d

\* serde_json::Map: kvs is the sequence of (key, value) pairs of the map.
contains_key(kvs, k) == \E i \in 1..Len(kvs) : kvs[i][1] = k
get(kvs, k) ==
    IF contains_key(kvs, k)
    THEN Some(kvs[CHOOSE i \in 1..Len(kvs) : kvs[i][1] = k][2])
    ELSE None

as_u64(o) == IF IsSome(o) /\ IsNum(o[1]) /\ o[1].num >= 0 THEN Some(o[1].num) ELSE None
as_f64(o) == IF IsSome(o) /\ IsNum(o[1]) THEN Some(o[1].num) ELSE None
as_str(o) == IF IsSome(o) /\ IsStr(o[1]) THEN Some(o[1].str) ELSE None

\* The comparison with >= in place of >.
OptGe(a, b) == IsSome(a) /\ (~IsSome(b) \/ a[1] >= b[1])

\* PartialOrd of Option<f64>: None is below every Some.
OptGt(a, b) == IsSome(a) /\ (~IsSome(b) \/ a[1] > b[1])

(***************************************************************************)
(* Strings as character sequences                                          *)
(***************************************************************************)
\* The characters of the multi-character strings the inputs use; any other
\* string of the model is a single character.
StrTable ==
    ("red" :> <<"r", "e", "d">>) @@ ("a.b" :> <<"a", ".", "b">>) @@
    ("q\"t" :> <<"q", "\"", "t">>) @@ ("x|y" :> <<"x", "|", "y">>) @@
    ("^[a-z]+$" :> <<"^", "[a-z]", "+", "$">>) @@
    ("[a-z]+" :> <<"[a-z]", "+">>) @@ ("" :> <<>>) @@
    ("^[a-z]+" :> <<"^", "[a-z]", "+">>) @@ ("[a-z]+$" :> <<"[a-z]", "+", "$">>)

Chars(s) == IF s \in DOMAIN StrTable THEN StrTable[s] ELSE <<s>>

RECURSIVE Flatten(_)
Flatten(parts) ==
    IF Len(parts) = 0 THEN <<>>
    ELSE IF Len(parts) = 1 THEN parts[1]
    ELSE Flatten(SubSeq(parts, 1, Len(parts) \div 2))
         \o Flatten(SubSeq(parts, (Len(parts) \div 2) + 1, Len(parts)))

RECURSIVE join(_, _)
join(parts, sep) ==
    IF Len(parts) = 0 THEN <<>>
    ELSE IF Len(parts) = 1 THEN parts[1]
    ELSE join(SubSeq(parts, 1, Len(parts) \div 2), sep) \o sep
         \o join(SubSeq(parts, (Len(parts) \div 2) + 1, Len(parts)), sep)

\* format!("{}", n) of an unsigned integer: its decimal digits.
DigitChar == <<"0", "1", "2", "3", "4", "5", "6", "7", "8", "9">>
RECURSIVE Digits(_)
Digits(n) ==
    IF n < 10 THEN <<DigitChar[n + 1]>>
    ELSE Digits(n \div 10) \o <<DigitChar[(n % 10) + 1]>>

\* regex_syntax::is_meta_character
MetaChars ==
    {"\\", ".", "+", "*", "?", "(", ")", "|", "[", "]", "{", "}", "^", "$",
     "#", "&", "-", "~"}

\* regex::escape: a backslash before every meta character.
escape(cs) ==
    [i \in 1..Len(cs) |-> IF cs[i] \in MetaChars THEN "\\" \o cs[i] ELSE cs[i]]

\* serde_json::to_string of a scalar: canonical JSON text.
QuoteChar(c) ==
    IF c = "\"" THEN <<"\\", "\"">>
    ELSE IF c = "\\" THEN <<"\\", "\\">>
    ELSE <<c>>

to_string(v) ==
    IF IsNull(v) THEN <<"n", "u", "l", "l">>
    ELSE IF IsBool(v) THEN
        (IF v.bool THEN <<"t", "r", "u", "e">> ELSE <<"f", "a", "l", "s", "e">>)
    ELSE IF IsNum(v) THEN
        (IF v.num < 0 THEN <<"-">> \o Digits(0 - v.num) ELSE Digits(v.num))
    ELSE <<"\"">> \o Flatten([i \in 1..Len(Chars(v.str)) |-> QuoteChar(Chars(v.str)[i])])
         \o <<"\"">>

(***************************************************************************)
(* types.rs: the primitive patterns                                        *)
(***************************************************************************)
StrCharClass == "[^\"\\\\\\x00-\\x1F\\x7F-\\x9F]"
QuoteBackslashClass == "[\"\\\\]"

STRING_INNER == <<"(", StrCharClass, "|", "\\\\", QuoteBackslashClass, ")">>
STRING_PATTERN == <<"\"">> \o STRING_INNER \o <<"*", "\"">>
INTEGER == <<"(", "-", ")", "?", "(", "0", "|", "[1-9]", "[0-9]", "*", ")">>
NUMBER ==
    <<"(", "(", "-", ")", "?", "(", "0", "|", "[1-9]", "[0-9]", "*", ")", ")",
      "(", "\\.", "[0-9]", "+", ")", "?",
      "(", "[eE]", "[+-]", "[0-9]", "+", ")", "?">>
BOOLEAN_PATTERN == <<"(", "t", "r", "u", "e", "|", "f", "a", "l", "s", "e", ")">>
NULL == <<"n", "u", "l", "l">>
WHITESPACE == <<"[ ]", "?">>

DATE_TIME ==
    <<"\"", "(", "-", "?", "(?:", "[1-9]", "[0-9]", "*", ")", "?", "[0-9]", "{", "4", "}", ")",
      "-", "(", "1", "[0-2]", "|", "0", "[1-9]", ")",
      "-", "(", "3", "[01]", "|", "0", "[1-9]", "|", "[12]", "[0-9]", ")",
      "T", "(", "2", "[0-3]", "|", "[01]", "[0-9]", ")",
      ":", "(", "[0-5]", "[0-9]", ")", ":", "(", "[0-5]", "[0-9]", ")",
      "(", "\\.", "[0-9]", "{", "3", "}", ")", "?", "(", "Z", ")", "?", "\"">>
DATE ==
    <<"\"", "(?:", "\\d", "{", "4", "}", ")", "-",
      "(?:", "0", "[1-9]", "|", "1", "[0-2]", ")", "-",
      "(?:", "0", "[1-9]", "|", "[1-2]", "[0-9]", "|", "3", "[0-1]", ")", "\"">>
TIME ==
    <<"\"", "(", "2", "[0-3]", "|", "[01]", "[0-9]", ")",
      ":", "(", "[0-5]", "[0-9]", ")", ":", "(", "[0-5]", "[0-9]", ")",
      "(", "\\\\", ".", "[0-9]", "+", ")", "?", "(", "Z", ")", "?", "\"">>
UUID ==
    <<"\"", "[0-9a-f]", "{", "8", "}", "-", "[0-9a-f]", "{", "4", "}", "-",
      "[0-9a-f]", "{", "4", "}", "-", "[0-9a-f]", "{", "4", "}", "-",
      "[0-9a-f]", "{", "1", "2", "}", "\"">>

\* FormatType::from_str followed by FormatType::to_regex
FormatType_from_str(s) ==
    IF s = "date-time" THEN Some(DATE_TIME)
    ELSE IF s = "date" THEN Some(DATE)
    ELSE IF s = "time" THEN Some(TIME)
    ELSE IF s = "uuid" THEN Some(UUID)
    ELSE None

(***************************************************************************)
(* anyhow::Result<String>.  kind is "ok" (re holds the pattern), "err"     *)
(* (err holds the message of the anyhow! that raised it) or "panic" (an    *)
(* unwrap of an Err unwound the stack).  depth is the number of nested     *)
(* to_regex frames the call reached.                                       *)
(***************************************************************************)
Ok(re, d) == [kind |-> "ok", re |-> re, err |-> "", depth |-> d]
Err(msg, d) == [kind |-> "err", re |-> <<>>, err |-> msg, depth |-> d]
Panic(d) == [kind |-> "panic", re |-> <<>>, err |-> "called Result::unwrap on an Err value", depth |-> d]

Max(a, b) == IF a >= b THEN a ELSE b

\* let x = v in F(x), with v evaluated once.
Let(v, F(_)) == CHOOSE y \in {F(x) : x \in {v}} : TRUE

\* The messages of the anyhow! calls, named by the error kind they stand for.
InvalidSchema == "Invalid JSON Schema: expected an object"
UnsupportedSchema == "Unsupported JSON Schema structure"
UnsupportedKeyword == "Unsupported JSON Schema keyword"
UnsupportedType == "Unsupported type"
UnsupportedFormat == "Format is not supported by Outlines"
UnsupportedLiteralEnum == "Unsupported data type in enum"
UnsupportedLiteralConst == "Unsupported data type in const"
InvalidBoundsLength == "maxLength must be greater than or equal to minLength"
InvalidBoundsDigits == "max bound must be greater than or equal to min bound"

(***************************************************************************)
(* handle_types.rs: helpers                                                *)
(***************************************************************************)
saturating_sub(a, b) == IF a >= b THEN a - b ELSE 0

\* NonZeroU64::new(n.saturating_sub(start_offset)) under the outer Option:
\* the inner None is the number 0, which is below every NonZeroU64.
validate_quantifiers(min_bound, max_bound, start_offset) ==
    LET mn == IF IsSome(min_bound) THEN Some(saturating_sub(min_bound[1], start_offset)) ELSE None
        mx == IF IsSome(max_bound) THEN Some(saturating_sub(max_bound[1], start_offset)) ELSE None
    IN  IF IsSome(mn) /\ IsSome(mx) /\ mx[1] < mn[1]
        THEN [kind |-> "err", err |-> InvalidBoundsDigits, min |-> None, max |-> None]
        ELSE [kind |-> "ok", err |-> "",
              min |-> IF IsSome(mn) /\ mn[1] > 0 THEN mn ELSE None,
              max |-> IF IsSome(mx) /\ mx[1] > 0 THEN mx ELSE None]

\* The quantifier of the bounds themselves, without the subtraction of 1.
get_num_items_pattern_no_offset(min_items, max_items) ==
    LET mn == unwrap_or(min_items, 0)
    IN  IF ~IsSome(max_items)
        THEN Some(<<"{">> \o Digits(mn) \o <<",", "}">>)
        ELSE IF max_items[1] < 1 THEN None
        ELSE Some(<<"{">> \o Digits(mn) \o <<",">> \o Digits(max_items[1]) \o <<"}">>)

get_num_items_pattern(min_items, max_items) ==
    LET mn == unwrap_or(min_items, 0)
    IN  IF ~IsSome(max_items)
        THEN Some(<<"{">> \o Digits(saturating_sub(mn, 1)) \o <<",", "}">>)
        ELSE IF max_items[1] < 1 THEN None
        ELSE Some(<<"{">> \o Digits(saturating_sub(mn, 1)) \o <<",">>
                  \o Digits(saturating_sub(max_items[1], 1)) \o <<"}">>)

(***************************************************************************)
(* handle_types.rs: the scalar type handlers                               *)
(***************************************************************************)
handle_boolean_type == Ok(BOOLEAN_PATTERN, 0)

handle_null_type == Ok(NULL, 0)

\* The handler with "format" tried before "pattern".
handle_string_type_format_first(obj) ==
    IF contains_key(obj, "maxLength") \/ contains_key(obj, "minLength") THEN
        LET max_items == get(obj, "maxLength")
            min_items == get(obj, "minLength")
            formatted_max == IF IsSome(as_u64(max_items)) THEN Digits(as_u64(max_items)[1]) ELSE <<>>
            formatted_min == IF IsSome(as_u64(min_items)) THEN Digits(as_u64(min_items)[1]) ELSE <<>>
        IN  IF IsSome(min_items) /\ IsSome(max_items) /\ OptGt(as_f64(min_items), as_f64(max_items))
            THEN Err(InvalidBoundsLength, 0)
            ELSE Ok(<<"\"">> \o STRING_INNER \o <<"{">> \o formatted_min \o <<",">>
                    \o formatted_max \o <<"}", "\"">>, 0)
    ELSE IF IsSome(as_str(get(obj, "format"))) THEN
        LET format_type == FormatType_from_str(as_str(get(obj, "format"))[1])
        IN  IF IsSome(format_type) THEN Ok(format_type[1], 0) ELSE Err(UnsupportedFormat, 0)
    ELSE IF IsSome(as_str(get(obj, "pattern"))) THEN
        LET pattern == Chars(as_str(get(obj, "pattern"))[1])
        IN  IF Len(pattern) > 0 /\ pattern[1] = "^" /\ pattern[Len(pattern)] = "$"
            THEN Ok(<<"(", "\"">> \o SubSeq(pattern, 2, Len(pattern) - 1) \o <<"\"", ")">>, 0)
            ELSE Ok(<<"(", "\"">> \o pattern \o <<"\"", ")">>, 0)
    ELSE Ok(STRING_PATTERN, 0)

handle_string_type(obj) ==
    IF contains_key(obj, "maxLength") \/ contains_key(obj, "minLength") THEN
        LET max_items == get(obj, "maxLength")
            min_items == get(obj, "minLength")
            formatted_max == IF IsSome(as_u64(max_items)) THEN Digits(as_u64(max_items)[1]) ELSE <<>>
            formatted_min == IF IsSome(as_u64(min_items)) THEN Digits(as_u64(min_items)[1]) ELSE <<>>
        IN  IF IsSome(min_items) /\ IsSome(max_items) /\ OptGt(as_f64(min_items), as_f64(max_items))
            THEN Err(InvalidBoundsLength, 0)
            ELSE Ok(<<"\"">> \o STRING_INNER \o <<"{">> \o formatted_min \o <<",">>
                    \o formatted_max \o <<"}", "\"">>, 0)
    ELSE IF IsSome(as_str(get(obj, "pattern"))) THEN
        LET pattern == Chars(as_str(get(obj, "pattern"))[1])
        IN  IF Len(pattern) > 0 /\ pattern[1] = "^" /\ pattern[Len(pattern)] = "$"
            THEN Ok(<<"(", "\"">> \o SubSeq(pattern, 2, Len(pattern) - 1) \o <<"\"", ")">>, 0)
            ELSE Ok(<<"(", "\"">> \o pattern \o <<"\"", ")">>, 0)
    ELSE IF IsSome(as_str(get(obj, "format"))) THEN
        LET format_type == FormatType_from_str(as_str(get(obj, "format"))[1])
        IN  IF IsSome(format_type) THEN Ok(format_type[1], 0) ELSE Err(UnsupportedFormat, 0)
    ELSE Ok(STRING_PATTERN, 0)

\* The match on (min, max) after validate_quantifiers; open is the quantifier
\* of the (None, None) arm and low the lower bound of the (None, Some) arm.
quantifier(min, max, low, open) ==
    IF IsSome(min) /\ IsSome(max) THEN <<"{">> \o Digits(min[1]) \o <<",">> \o Digits(max[1]) \o <<"}">>
    ELSE IF IsSome(min) THEN <<"{">> \o Digits(min[1]) \o <<",", "}">>
    ELSE IF IsSome(max) THEN <<"{", low, ",">> \o Digits(max[1]) \o <<"}">>
    ELSE <<open>>

handle_number_type(obj) ==
    LET bounds == {"minDigitsInteger", "maxDigitsInteger", "minDigitsFraction",
                   "maxDigitsFraction", "minDigitsExponent", "maxDigitsExponent"}
        has_bounds == \E key \in bounds : contains_key(obj, key)
        int == validate_quantifiers(as_u64(get(obj, "minDigitsInteger")),
                                    as_u64(get(obj, "maxDigitsInteger")), 1)
        fra == validate_quantifiers(as_u64(get(obj, "minDigitsFraction")),
                                    as_u64(get(obj, "maxDigitsFraction")), 0)
        exp == validate_quantifiers(as_u64(get(obj, "minDigitsExponent")),
                                    as_u64(get(obj, "maxDigitsExponent")), 0)
    IN  IF ~has_bounds THEN Ok(NUMBER, 0)
        ELSE IF int.kind = "err" THEN Err(int.err, 0)
        ELSE IF fra.kind = "err" THEN Err(fra.err, 0)
        ELSE IF exp.kind = "err" THEN Err(exp.err, 0)
        ELSE Ok(<<"(", "(", "-", ")", "?", "(", "0", "|", "[1-9]", "[0-9]">>
                \o quantifier(int.min, int.max, "1", "*") \o <<")", ")">>
                \o <<"(", "\\.", "[0-9]">> \o quantifier(fra.min, fra.max, "0", "+") \o <<")", "?">>
                \o <<"(", "[eE]", "[+-]", "[0-9]">> \o quantifier(exp.min, exp.max, "0", "+")
                \o <<")", "?">>, 0)

handle_integer_type(obj) ==
    IF contains_key(obj, "minDigits") \/ contains_key(obj, "maxDigits") THEN
        LET q == validate_quantifiers(as_u64(get(obj, "minDigits")),
                                      as_u64(get(obj, "maxDigits")), 1)
        IN  IF q.kind = "err" THEN Err(q.err, 0)
            ELSE Ok(<<"(", "-", ")", "?", "(", "0", "|", "[1-9]", "[0-9]">>
                    \o quantifier(q.min, q.max, "1", "*") \o <<")">>, 0)
    ELSE Ok(INTEGER, 0)


\* The table with "const" tried before "enum".
KeywordTable_const_first ==
    << <<"properties", "Properties">>, <<"allOf", "AllOf">>, <<"anyOf", "AnyOf">>,
       <<"oneOf", "OneOf">>, <<"prefixItems", "PrefixItems">>, <<"const", "Const">>,
       <<"enum", "Enum">>, <<"$ref", "Ref">>, <<"type", "Type">> >>

\* The table without its "$ref" entry.
KeywordTable_no_ref ==
    << <<"properties", "Properties">>, <<"allOf", "AllOf">>, <<"anyOf", "AnyOf">>,
       <<"oneOf", "OneOf">>, <<"prefixItems", "PrefixItems">>, <<"enum", "Enum">>,
       <<"const", "Const">>, <<"type", "Type">> >>

(***************************************************************************)
(* guidance.rs: the dispatcher and the keyword handlers.                   *)
(*                                                                         *)
(* A handler X is modelled by two definitions: X_calls(obj), the schemas   *)
(* it passes to to_regex in the order of the calls, and handle_X, which    *)
(* receives the collected results of those calls (the calls are made in    *)
(* order and the first failure ends them, as ? and collect do).            *)
(***************************************************************************)
\* The (key, SchemaKeyword) array scanned by find_map, in its order.
KeywordTable ==
    << <<"properties", "Properties">>, <<"allOf", "AllOf">>, <<"anyOf", "AnyOf">>,
       <<"oneOf", "OneOf">>, <<"prefixItems", "PrefixItems">>, <<"enum", "Enum">>,
       <<"const", "Const">>, <<"$ref", "Ref">>, <<"type", "Type">> >>

\* find_map over the table from entry i: the first entry whose key the map holds.
find_map(table, obj) ==
    LET found == {i \in 1..Len(table) : contains_key(obj, table[i][1])}
    IN  IF found = {} THEN None
        ELSE Some(table[CHOOSE i \in found : \A k \in found : i <= k][2])

\* The keyword of an object node: None is the ok_or_else error.
select_keyword(obj) ==
    IF Len(obj) = 0 THEN Some("EmptyObject") ELSE find_map(KeywordTable, obj)

Reverse(xs) == [i \in 1..Len(xs) |-> xs[Len(xs) + 1 - i]]

\* json!({"type": t}) and json!({"type": t, "depth": d})
TypeSchema(t) == Obj(<< <<"type", Str(t)>> >>)
TypeDepthSchema(t, d) == Obj(<< <<"type", Str(t)>>, <<"depth", Num(d)>> >>)

---------------------------------------------------------------------------
\* handle_properties

\* obj.get("properties").and_then(Value::as_object)
properties_of(obj) ==
    IF IsSome(get(obj, "properties")) /\ IsObj(get(obj, "properties")[1])
    THEN Some(get(obj, "properties")[1].obj)
    ELSE None

\* obj.get("required").and_then(as_array).map(filter_map(as_str)).unwrap_or_default()
required_properties_of(obj) ==
    LET req == get(obj, "required")
    IN  IF IsSome(req) /\ IsArr(req[1])
        THEN {req[1].arr[j].str : j \in {j \in 1..Len(req[1].arr) : IsStr(req[1].arr[j])}}
        ELSE {}

is_required_of(obj) ==
    LET properties == properties_of(obj)[1]
    IN  [i \in 1..Len(properties) |-> properties[i][1] \in required_properties_of(obj)]

any_required(obj) == \E i \in 1..Len(is_required_of(obj)) : is_required_of(obj)[i]

\* The properties reversed in both branches.
properties_iterated_rev(obj) == Reverse(properties_of(obj)[1])

\* The properties in the order the branch taken iterates over them:
\* properties.iter() with a required property, properties.iter().rev() with none.
properties_iterated(obj) ==
    IF any_required(obj) THEN properties_of(obj)[1] ELSE Reverse(properties_of(obj)[1])

properties_calls(obj) ==
    IF ~IsSome(properties_of(obj)) THEN <<>>
    ELSE [i \in 1..Len(properties_iterated(obj)) |-> properties_iterated(obj)[i][2]]

\* format!(r#"{ws}"{}"{}:{}"#, escape(name), ws, ws) + to_regex(value)
property_subregex(name, value_regex, ws) ==
    ws \o <<"\"">> \o escape(Chars(name)) \o <<"\"">> \o ws \o <<":">> \o ws \o value_regex

\* One candidate of the zero-required branch: subregexes[..i] optional with a
\* trailing comma, subregexes[i], subregexes[i+1..] optional with a leading one.
possible_pattern(subs, i, ws) ==
    Flatten([k \in 1..(i - 1) |-> <<"(">> \o subs[k] \o ws \o <<",", ")", "?">>])
    \o subs[i]
    \o Flatten([k \in 1..(Len(subs) - i) |-> <<"(">> \o ws \o <<",">> \o subs[i + k] \o <<")", "?">>])

handle_properties(obj, ws, vals) ==
    IF ~IsSome(properties_of(obj))
    THEN Err("'properties' not found or not an object", 0)
    ELSE
    LET properties == properties_iterated(obj)
        n == Len(properties)
        is_required == is_required_of(obj)
    IN  IF any_required(obj) THEN
            LET last_required_pos == CHOOSE i \in 1..n :
                    is_required[i] /\ \A j \in 1..n : is_required[j] => j <= i
                sub(i) ==
                    LET s0 == property_subregex(properties[i][1], vals.re[i], ws)
                        s1 == IF i < last_required_pos THEN s0 \o ws \o <<",">>
                              ELSE IF i > last_required_pos THEN ws \o <<",">> \o s0
                              ELSE s0
                    IN  IF is_required[i] THEN s1 ELSE <<"(">> \o s1 \o <<")", "?">>
            IN  IF vals.kind # "ok" THEN vals
                ELSE Ok(<<"\\{">> \o Flatten([i \in 1..n |-> sub(i)]) \o ws \o <<"\\}">>, vals.depth)
        ELSE
            LET property_subregexes ==
                    [i \in 1..n |-> property_subregex(properties[i][1], vals.re[i], ws)]
                possible_patterns ==
                    [i \in 1..n |-> possible_pattern(property_subregexes, i, ws)]
            IN  IF vals.kind # "ok" THEN vals
                ELSE Ok(<<"\\{">> \o <<"(">> \o join(possible_patterns, <<"|">>) \o <<")", "?">>
                        \o ws \o <<"\\}">>, vals.depth)

---------------------------------------------------------------------------
\* handle_all_of, handle_any_of, handle_one_of, handle_prefix_items

\* Some(Value::Array(a)) of obj.get(key)
array_at(obj, key) ==
    IF IsSome(get(obj, key)) /\ IsArr(get(obj, key)[1]) THEN Some(get(obj, key)[1].arr) ELSE None

all_of_calls(obj) == unwrap_or(array_at(obj, "allOf"), <<>>)

handle_all_of(obj, ws, subregexes) ==
    IF ~IsSome(array_at(obj, "allOf")) THEN Err("'allOf' must be an array", 0)
    ELSE IF subregexes.kind # "ok" THEN subregexes
    ELSE Ok(<<"(">> \o join(subregexes.re, <<>>) \o <<")">>, subregexes.depth)

any_of_calls(obj) == unwrap_or(array_at(obj, "anyOf"), <<>>)

handle_any_of(obj, ws, subregexes) ==
    IF ~IsSome(array_at(obj, "anyOf")) THEN Err("'anyOf' must be an array", 0)
    ELSE IF subregexes.kind # "ok" THEN subregexes
    ELSE Ok(<<"(">> \o join(subregexes.re, <<"|">>) \o <<")">>, subregexes.depth)

one_of_calls(obj) == unwrap_or(array_at(obj, "oneOf"), <<>>)

handle_one_of(obj, ws, subregexes) ==
    IF ~IsSome(array_at(obj, "oneOf")) THEN Err("'oneOf' must be an array", 0)
    ELSE IF subregexes.kind # "ok" THEN subregexes
    ELSE LET xor_patterns ==
                 [i \in 1..Len(subregexes.re) |-> <<"(?:">> \o subregexes.re[i] \o <<")">>]
         IN  Ok(<<"(">> \o join(xor_patterns, <<"|">>) \o <<")">>, subregexes.depth)

prefix_items_calls(obj) == unwrap_or(array_at(obj, "prefixItems"), <<>>)

handle_prefix_items(obj, ws, element_patterns) ==
    IF ~IsSome(array_at(obj, "prefixItems")) THEN Err("'prefixItems' must be an array", 0)
    ELSE IF element_patterns.kind # "ok" THEN element_patterns
    ELSE LET comma_split_pattern == ws \o <<",">> \o ws
             tuple_inner == join(element_patterns.re, comma_split_pattern)
         IN  Ok(<<"\\[">> \o ws \o tuple_inner \o ws \o <<"\\]">>, element_patterns.depth)

---------------------------------------------------------------------------
\* handle_enum, handle_const

\* Value::Null | Value::Bool(_) | Value::Number(_) | Value::String(_)
IsScalar(v) == IsNull(v) \/ IsBool(v) \/ IsNum(v) \/ IsStr(v)

\* A choice left unescaped.
enum_choice_unescaped(choice) == to_string(choice)

\* One choice of an enum: regex::escape(&serde_json::to_string(choice)?)
enum_choice(choice) == escape(to_string(choice))

handle_enum(obj) ==
    IF ~IsSome(array_at(obj, "enum")) THEN Err("'enum' must be an array", 0)
    ELSE LET enum_values == array_at(obj, "enum")[1]
             choices == [i \in 1..Len(enum_values) |-> enum_choice(enum_values[i])]
         IN  IF \E i \in 1..Len(enum_values) : ~IsScalar(enum_values[i])
             THEN Err(UnsupportedLiteralEnum, 0)
             ELSE Ok(<<"(">> \o join(choices, <<"|">>) \o <<")">>, 0)

\* The constant left unescaped.
handle_const_unescaped(obj) ==
    IF IsSome(get(obj, "const")) THEN
        LET const_value == get(obj, "const")[1]
        IN  IF IsScalar(const_value) THEN Ok(to_string(const_value), 0)
            ELSE Err(UnsupportedLiteralConst, 0)
    ELSE Err("'const' key not found in object", 0)

handle_const(obj) ==
    IF IsSome(get(obj, "const")) THEN
        LET const_value == get(obj, "const")[1]
        IN  IF IsScalar(const_value) THEN Ok(escape(to_string(const_value)), 0)
            ELSE Err(UnsupportedLiteralConst, 0)
    ELSE Err("'const' key not found in object", 0)

---------------------------------------------------------------------------
\* handle_types.rs: handle_object_type, handle_array_type

\* The budget with a default of 3.
depth_of_default_3(obj) == unwrap_or(as_u64(get(obj, "depth")), 3)

\* obj.get("depth").and_then(as_u64).unwrap_or(2)
depth_of(obj) == unwrap_or(as_u64(get(obj, "depth")), 2)

\* The nested alternatives pushed while depth > 1 only.
nested_types_above_1(depth) ==
    IF depth > 1
    THEN <<TypeDepthSchema("object", depth - 1), TypeDepthSchema("array", depth - 1)>>
    ELSE <<>>

\* The two nested alternatives pushed while depth > 0.
nested_types(depth) ==
    IF depth > 0
    THEN <<TypeDepthSchema("object", depth - 1), TypeDepthSchema("array", depth - 1)>>
    ELSE <<>>

object_num_repeats(obj) ==
    get_num_items_pattern(as_u64(get(obj, "minProperties")), as_u64(get(obj, "maxProperties")))

\* additional_properties.is_none() || additional_properties == Some(&Value::Bool(true))
object_is_unconstrained(obj) ==
    LET additional_properties == get(obj, "additionalProperties")
    IN  ~IsSome(additional_properties)
        \/ (IsBool(additional_properties[1]) /\ additional_properties[1].bool)

object_legal_types(obj) ==
    <<TypeSchema("string"), TypeSchema("number"), TypeSchema("boolean"), TypeSchema("null")>>
    \o nested_types(depth_of(obj))

object_type_calls(obj) ==
    IF ~IsSome(object_num_repeats(obj)) THEN <<>>
    ELSE IF object_is_unconstrained(obj)
    THEN <<Obj(<< <<"anyOf", Arr(object_legal_types(obj))>> >>)>>
    ELSE <<get(obj, "additionalProperties")[1]>>

\* value_pattern is the collected result of the one call; its unwrap panics
\* on a failure of the call.
handle_object_type(obj, ws, value_pattern) ==
    LET min_properties == as_u64(get(obj, "minProperties"))
        num_repeats == object_num_repeats(obj)
        allow_empty == IF unwrap_or(min_properties, 0) = 0 THEN <<"?">> ELSE <<>>
        key_value_pattern == STRING_PATTERN \o ws \o <<":">> \o ws \o value_pattern.re[1]
        key_value_successor_pattern == ws \o <<",">> \o ws \o key_value_pattern
        multiple_key_value_pattern ==
            <<"(">> \o key_value_pattern \o <<"(">> \o key_value_successor_pattern \o <<")">>
            \o num_repeats[1] \o <<")">> \o allow_empty
    IN  IF ~IsSome(num_repeats) THEN Ok(<<"\\{">> \o ws \o <<"}">>, 0)
        ELSE IF value_pattern.kind # "ok" THEN Panic(value_pattern.depth)
        ELSE Ok(<<"\\{">> \o ws \o multiple_key_value_pattern \o ws \o <<"}">>, value_pattern.depth)

array_num_repeats(obj) ==
    unwrap_or(get_num_items_pattern(as_u64(get(obj, "minItems")), as_u64(get(obj, "maxItems"))),
              <<>>)

array_legal_types(obj) ==
    <<TypeSchema("boolean"), TypeSchema("null"), TypeSchema("number"), TypeSchema("integer"),
      TypeSchema("string")>>
    \o nested_types(depth_of(obj))

array_type_calls(obj) ==
    IF array_num_repeats(obj) = <<>> THEN <<>>
    ELSE IF IsSome(get(obj, "items")) THEN <<get(obj, "items")[1]>>
    ELSE array_legal_types(obj)

\* The pattern of the case num_repeats.is_empty()
empty_array_pattern(ws) == <<"\\[">> \o ws \o ws \o <<"\\]">>

\* format!(r"\[{0}(({1})(,{0}({1})){2}){3}{0}\]", ws, item, num_repeats, allow_empty)
array_pattern(ws, item, num_repeats, allow_empty) ==
    <<"\\[">> \o ws \o <<"(", "(">> \o item \o <<")", "(", ",">> \o ws \o <<"(">> \o item
    \o <<")", ")">> \o num_repeats \o <<")">> \o allow_empty \o ws \o <<"\\]">>

handle_array_type(obj, ws, regexes) ==
    LET num_repeats == array_num_repeats(obj)
        allow_empty == IF unwrap_or(as_u64(get(obj, "minItems")), 0) = 0 THEN <<"?">> ELSE <<>>
    IN  IF num_repeats = <<>> THEN Ok(empty_array_pattern(ws), 0)
        ELSE IF regexes.kind # "ok" THEN regexes
        ELSE IF IsSome(get(obj, "items"))
        THEN Ok(array_pattern(ws, regexes.re[1], num_repeats, allow_empty), regexes.depth)
        ELSE Ok(array_pattern(ws, join(regexes.re, <<"|">>), num_repeats, allow_empty),
                regexes.depth)

---------------------------------------------------------------------------
\* handle_type, handle_empty_object, to_regex

\* obj["type"].as_str()
instance_type_of(obj) == as_str(get(obj, "type"))

type_calls(obj) ==
    IF instance_type_of(obj) = Some("array") THEN array_type_calls(obj)
    ELSE IF instance_type_of(obj) = Some("object") THEN object_type_calls(obj)
    ELSE <<>>

handle_type(obj, ws, sub) ==
    LET instance_type == instance_type_of(obj)
    IN  CASE ~IsSome(instance_type) -> Err("'type' must be a string", 0)
          [] instance_type[1] = "string" -> handle_string_type(obj)
          [] instance_type[1] = "number" -> handle_number_type(obj)
          [] instance_type[1] = "integer" -> handle_integer_type(obj)
          [] instance_type[1] = "array" -> handle_array_type(obj, ws, sub)
          [] instance_type[1] = "object" -> handle_object_type(obj, ws, sub)
          [] instance_type[1] = "boolean" -> handle_boolean_type
          [] instance_type[1] = "null" -> handle_null_type
          [] OTHER -> Err(UnsupportedType, 0)

\* The seven types with integer before number.
empty_object_calls_integer_first ==
    <<TypeSchema("boolean"), TypeSchema("null"), TypeSchema("integer"), TypeSchema("number"),
      TypeSchema("string"), TypeSchema("array"), TypeSchema("object")>>

empty_object_calls ==
    <<TypeSchema("boolean"), TypeSchema("null"), TypeSchema("number"), TypeSchema("integer"),
      TypeSchema("string"), TypeSchema("array"), TypeSchema("object")>>

handle_empty_object(ws, regexes) ==
    IF regexes.kind # "ok" THEN regexes
    ELSE LET wrapped_regexes ==
                 [i \in 1..Len(regexes.re) |-> <<"(">> \o regexes.re[i] \o <<")">>]
         IN  Ok(join(wrapped_regexes, <<"|">>), regexes.depth)

\* The schemas the arm of keyword kw passes to to_regex.
calls(kw, obj) ==
    CASE kw = "Properties" -> properties_calls(obj)
      [] kw = "AllOf" -> all_of_calls(obj)
      [] kw = "AnyOf" -> any_of_calls(obj)
      [] kw = "OneOf" -> one_of_calls(obj)
      [] kw = "PrefixItems" -> prefix_items_calls(obj)
      [] kw = "Type" -> type_calls(obj)
      [] kw = "EmptyObject" -> empty_object_calls
      [] OTHER -> <<>>

\* The match on the selected keyword; sub holds the results of calls(kw, obj).
dispatch(kw, obj, ws, sub) ==
    CASE kw = "Properties" -> handle_properties(obj, ws, sub)
      [] kw = "AllOf" -> handle_all_of(obj, ws, sub)
      [] kw = "AnyOf" -> handle_any_of(obj, ws, sub)
      [] kw = "OneOf" -> handle_one_of(obj, ws, sub)
      [] kw = "PrefixItems" -> handle_prefix_items(obj, ws, sub)
      [] kw = "Enum" -> handle_enum(obj)
      [] kw = "Const" -> handle_const(obj)
      [] kw = "Type" -> handle_type(obj, ws, sub)
      [] kw = "EmptyObject" -> handle_empty_object(ws, sub)
      [] OTHER -> Err(UnsupportedKeyword, 0)

\* One to_regex frame around what the handler did.
Frame(r) == [r EXCEPT !.depth = @ + 1]

RECURSIVE to_regex(_, _)

\* The outcome of collect::<Result<Vec<String>>>() over the results rs of the
\* calls: the patterns when every call succeeded, else the first failure, the
\* calls after it not made; depth is the deepest of the calls made.
collect(rs) ==
    LET failed == {k \in 1..Len(rs) : rs[k].kind # "ok"}
        last == IF failed = {} THEN Len(rs)
                ELSE CHOOSE k \in failed : \A j \in failed : k <= j
        deepest == IF last = 0 THEN 0
                   ELSE CHOOSE d \in {rs[k].depth : k \in 1..last} :
                            \A k \in 1..last : rs[k].depth <= d
    IN  IF failed = {} THEN Ok([k \in 1..Len(rs) |-> rs[k].re] \o <<>>, deepest)
        ELSE [rs[last] EXCEPT !.depth = deepest]

\* The calls made with the whitespace pattern unset: to_regex(t, None).
map_to_regex_unset(items, ws) == [k \in 1..Len(items) |-> to_regex(items[k], None)] \o <<>>

\* items.iter().map(|t| to_regex(t, Some(ws))): the results of the calls.
map_to_regex(items, ws) == [k \in 1..Len(items) |-> to_regex(items[k], Some(ws))] \o <<>>

\* items.iter().map(|t| to_regex(t, Some(ws))).collect::<Result<Vec<String>>>()
collect_to_regex(items, ws) == Let(map_to_regex(items, ws), collect)

\* let ws = whitespace_pattern.unwrap_or(WHITESPACE) comes first; rs are the
\* results of the calls of the selected arm.
to_regex(json, whitespace_pattern) ==
    CASE ~IsObj(json) -> Err(InvalidSchema, 1)
      [] IsObj(json) /\ ~IsSome(select_keyword(json.obj)) -> Err(UnsupportedSchema, 1)
      [] OTHER ->
            CHOOSE r \in UNION {{Frame(dispatch(select_keyword(json.obj)[1], json.obj, ws,
                                                collect(rs))) :
                                     rs \in {map_to_regex(calls(select_keyword(json.obj)[1],
                                                                json.obj), ws)}} :
                                 ws \in {unwrap_or(whitespace_pattern, WHITESPACE)}} :
                TRUE

(***************************************************************************)
(* The regex engine the pattern is handed to (regex::Regex::new and a      *)
(* match of the whole text): the syntax of the regex crate over the token  *)
(* sequences above.                                                        *)
(***************************************************************************)
DigitSet == {"0", "1", "2", "3", "4", "5", "6", "7", "8", "9"}
ControlChars == {"\n", "\t"}

ClassTable ==
    ("[0-9]" :> DigitSet) @@ ("[1-9]" :> DigitSet \ {"0"}) @@ ("\\d" :> DigitSet) @@
    ("[ ]" :> {" "}) @@ ("[eE]" :> {"e", "E"}) @@ ("[+-]" :> {"+", "-"}) @@
    ("[0-2]" :> {"0", "1", "2"}) @@ ("[01]" :> {"0", "1"}) @@ ("[12]" :> {"1", "2"}) @@
    ("[1-2]" :> {"1", "2"}) @@ ("[0-1]" :> {"0", "1"}) @@
    ("[0-3]" :> {"0", "1", "2", "3"}) @@ ("[0-5]" :> {"0", "1", "2", "3", "4", "5"}) @@
    ("[0-9a-f]" :> DigitSet \cup {"a", "b", "c", "d", "e", "f"}) @@
    ("[a-z]" :> {"a", "b", "c", "d", "e", "f", "q", "r", "t", "u", "x", "y", "z"}) @@
    ("\\s" :> {" ", "\n", "\t"}) @@
    (QuoteBackslashClass :> {"\"", "\\"})

EscapedTokens == {"\\" \o c : c \in MetaChars}
Unescape(tok) == CHOOSE c \in MetaChars : tok = "\\" \o c

\* Whether the one-character atom tok matches the character c.
atom_matches(tok, c) ==
    IF tok = StrCharClass THEN c \notin ({"\"", "\\"} \cup ControlChars)
    ELSE IF tok \in DOMAIN ClassTable THEN c \in ClassTable[tok]
    ELSE IF tok \in EscapedTokens THEN c = Unescape(tok)
    ELSE IF tok = "." THEN c # "\n"
    ELSE c = tok

PR(ok, node, pos) == [ok |-> ok, node |-> node, pos |-> pos]
ParseError == PR(FALSE, [t |-> "bad"], 0)

\* The decimal number at r[i..]: its value, the position after it and its length.
RECURSIVE read_decimal(_, _, _, _)
read_decimal(r, i, n, cnt) ==
    IF i <= Len(r) /\ r[i] \in DigitSet
    THEN read_decimal(r, i + 1,
                      10 * n + ((CHOOSE k \in 1..10 : DigitChar[k] = r[i]) - 1), cnt + 1)
    ELSE [n |-> n, pos |-> i, cnt |-> cnt]

\* A counted repetition {n}, {n,} or {n,m} at r[i] = "{" applied to node: the
\* numbers must be present and n <= m.
parse_counted(r, i, node) ==
    LET lo == read_decimal(r, i + 1, 0, 0)
        hi == read_decimal(r, lo.pos + 1, 0, 0)
    IN  IF lo.cnt = 0 \/ lo.pos > Len(r) THEN ParseError
        ELSE IF r[lo.pos] = "}"
        THEN PR(TRUE, [t |-> "rep", x |-> node, lo |-> lo.n, hi |-> lo.n], lo.pos + 1)
        ELSE IF r[lo.pos] # "," \/ hi.pos > Len(r) \/ r[hi.pos] # "}" THEN ParseError
        ELSE IF hi.cnt = 0
        THEN PR(TRUE, [t |-> "rep", x |-> node, lo |-> lo.n, hi |-> -1], hi.pos + 1)
        ELSE IF hi.n < lo.n THEN ParseError
        ELSE PR(TRUE, [t |-> "rep", x |-> node, lo |-> lo.n, hi |-> hi.n], hi.pos + 1)

\* The repetition operator, if any, after the atom that ends before r[i]; a ?
\* right after an operator only makes it lazy.
parse_repetition(r, i, node) ==
    LET q == IF i > Len(r) THEN PR(TRUE, node, i)
             ELSE IF r[i] = "?" THEN PR(TRUE, [t |-> "rep", x |-> node, lo |-> 0, hi |-> 1], i + 1)
             ELSE IF r[i] = "*" THEN PR(TRUE, [t |-> "rep", x |-> node, lo |-> 0, hi |-> -1], i + 1)
             ELSE IF r[i] = "+" THEN PR(TRUE, [t |-> "rep", x |-> node, lo |-> 1, hi |-> -1], i + 1)
             ELSE IF r[i] = "{" THEN parse_counted(r, i, node)
             ELSE PR(TRUE, node, i)
    IN  IF q.ok /\ q.pos > i /\ q.pos <= Len(r) /\ r[q.pos] = "?"
        THEN [q EXCEPT !.pos = @ + 1]
        ELSE q

\* The parser's stack holds one entry per open group: the alternatives closed
\* so far, the atoms of the current one, whether the group captures, and
\* whether the last atom already has its repetition operator.
OpenGroup(cap) == [alts |-> <<>>, cur |-> <<>>, cap |-> cap, quantified |-> FALSE]

ParserState(ok, pos, stack) == [ok |-> ok, pos |-> pos, stack |-> stack]

\* The alternation of a group whose last alternative ends here.
CloseGroup(g) == [t |-> "alt", xs |-> Append(g.alts, [t |-> "cat", xs |-> g.cur])]

\* A new atom at the end of the innermost group.
PushAtom(stack, node) ==
    [stack EXCEPT ![Len(stack)] = [@ EXCEPT !.cur = Append(@, node), !.quantified = FALSE]]

\* The token at s.pos (a whole repetition operator at once) moves the parser on.
parse_token(r, s) ==
    LET tok == r[s.pos]
        depth == Len(s.stack)
        top == s.stack[depth]
    IN  IF tok \in {"(", "(?:"}
        THEN ParserState(TRUE, s.pos + 1, Append(s.stack, OpenGroup(tok = "(")))
        ELSE IF tok = ")"
        THEN IF depth = 1 THEN ParserState(FALSE, s.pos, s.stack)
             ELSE ParserState(TRUE, s.pos + 1,
                              PushAtom(SubSeq(s.stack, 1, depth - 1),
                                       [t |-> "grp", x |-> CloseGroup(top), cap |-> top.cap]))
        ELSE IF tok = "|"
        THEN ParserState(TRUE, s.pos + 1,
                         [s.stack EXCEPT ![depth] =
                             [@ EXCEPT !.alts = Append(@, [t |-> "cat", xs |-> top.cur]),
                                       !.cur = <<>>, !.quantified = FALSE]])
        ELSE IF tok \in {"?", "*", "+", "{"}
        THEN IF Len(top.cur) = 0 \/ top.quantified THEN ParserState(FALSE, s.pos, s.stack)
             ELSE LET q == parse_repetition(r, s.pos, top.cur[Len(top.cur)])
                  IN  ParserState(q.ok, q.pos,
                                  [s.stack EXCEPT ![depth] =
                                      [@ EXCEPT !.cur[Len(top.cur)] = q.node,
                                                !.quantified = TRUE]])
        ELSE IF tok = "^" THEN ParserState(TRUE, s.pos + 1, PushAtom(s.stack, [t |-> "bol"]))
        ELSE IF tok = "$" THEN ParserState(TRUE, s.pos + 1, PushAtom(s.stack, [t |-> "eol"]))
        ELSE ParserState(TRUE, s.pos + 1, PushAtom(s.stack, [t |-> "chr", tok |-> tok]))

\* Up to 2^k tokens from state s on.
RECURSIVE parse_tokens(_, _, _)
parse_tokens(r, s, k) ==
    IF ~s.ok \/ s.pos > Len(r) THEN s
    ELSE IF k = 0 THEN parse_token(r, s)
    ELSE parse_tokens(r, parse_tokens(r, s, k - 1), k - 1)

\* Regex::new: the syntax tree, or an error.
Regex_new(r) ==
    LET k == CHOOSE n \in 0..24 : 2^n >= Len(r) /\ \A m \in 0..(n - 1) : 2^m < Len(r)
        s == parse_tokens(r, ParserState(TRUE, 1, <<OpenGroup(FALSE)>>), k)
    IN  IF s.ok /\ Len(s.stack) = 1 /\ s.pos = Len(r) + 1
        THEN PR(TRUE, CloseGroup(s.stack[1]), s.pos)
        ELSE ParseError

\* A thread of the matcher: the position in the text and the nodes still to
\* match from there, the next one first.
Thread(pos, todo) == [pos |-> pos, todo |-> todo]

\* The node of the repetitions of node that remain after one that began at pos.
OneFewer(node, pos) ==
    [t |-> "rep", x |-> node.x, lo |-> IF node.lo > 0 THEN node.lo - 1 ELSE 0,
     hi |-> IF node.hi = -1 THEN -1 ELSE node.hi - 1, at |-> pos]

\* The threads after one step of thread c: its next node consumes a character
\* of the text or gives way to its parts; a thread whose next node fails is
\* dropped.  A repetition whose last round consumed nothing has matched: its
\* further rounds would consume nothing as well.
match_step(text, c) ==
    LET node == Head(c.todo)
        rest == Tail(c.todo)
    IN  CASE node.t = "chr" ->
                IF c.pos <= Len(text) /\ atom_matches(node.tok, text[c.pos])
                THEN {Thread(c.pos + 1, rest)} ELSE {}
          [] node.t = "bol" -> IF c.pos = 1 THEN {Thread(c.pos, rest)} ELSE {}
          [] node.t = "eol" ->
                IF c.pos = Len(text) + 1 THEN {Thread(c.pos, rest)} ELSE {}
          [] node.t = "grp" -> {Thread(c.pos, <<node.x>> \o rest)}
          [] node.t = "cat" -> {Thread(c.pos, node.xs \o rest)}
          [] node.t = "alt" ->
                {Thread(c.pos, <<node.xs[k]>> \o rest) : k \in 1..Len(node.xs)}
          [] node.t = "rep" ->
                IF "at" \in DOMAIN node /\ node.at = c.pos
                THEN {Thread(c.pos, rest)}
                ELSE (IF node.lo = 0 THEN {Thread(c.pos, rest)} ELSE {})
                     \cup (IF node.hi = 0 THEN {}
                           ELSE {Thread(c.pos, <<node.x, OneFewer(node, c.pos)>> \o rest)})

\* One step of every live thread of search s; the positions of the threads
\* that have nothing left to match are its ends.
match_round(text, s) ==
    LET next == UNION {match_step(text, c) : c \in s.live}
    IN  [live |-> {c \in next : c.todo # <<>>},
         ends |-> s.ends \cup {c.pos : c \in {d \in next : d.todo = <<>>}}]

\* 2^k rounds of search s, or as many as leave a live thread.
RECURSIVE match_run(_, _, _)
match_run(text, s, k) ==
    IF s.live = {} THEN s
    ELSE IF k = 0 THEN match_round(text, s)
    ELSE match_run(text, match_run(text, s, k - 1), k - 1)

\* The positions text can be at after node has matched from position i: the
\* ends of a search of 2^12 rounds, many times the rounds a text here takes.
match_at(node, text, i) ==
    match_run(text, [live |-> {Thread(i, <<node>>)}, ends |-> {}], 12).ends

\* The pattern compiles and matches the whole of text.
is_match(r, text) ==
    LET p == Regex_new(r)
    IN  p.ok /\ (Len(text) + 1) \in match_at(p.node, text, 1)


(***************************************************************************)
(* The inputs of a compilation                                             *)
(***************************************************************************)
MaxKeys == 2

\* The nine recognized keys and one unrecognized, each with a value its
\* handler accepts.
KeyPool ==
    {"properties", "allOf", "anyOf", "oneOf", "prefixItems", "enum", "const", "$ref", "type",
     "title"}

KeyValue(k) ==
    IF k = "properties" THEN Obj(<< <<"a", TypeSchema("null")>> >>)
    ELSE IF k = "allOf" THEN Arr(<<TypeSchema("null")>>)
    ELSE IF k = "anyOf" THEN Arr(<<TypeSchema("boolean")>>)
    ELSE IF k = "oneOf" THEN Arr(<<TypeSchema("null")>>)
    ELSE IF k = "prefixItems" THEN Arr(<<TypeSchema("null")>>)
    ELSE IF k = "enum" THEN Arr(<<Str("a")>>)
    ELSE IF k = "const" THEN Num(1)
    ELSE IF k = "$ref" THEN Str("#")
    ELSE IF k = "type" THEN Str("null")
    ELSE Str("t")

\* The sequences of n distinct elements of S.
Arrangements(S, n) ==
    {f \in [1..n -> S] : \A i \in 1..n : \A j \in 1..n : f[i] = f[j] => i = j}

\* Object nodes holding 1..MaxKeys keys of the pool, in every key order.
DispatchInputs ==
    {Obj([i \in 1..Len(ks) |-> <<ks[i], KeyValue(ks[i])>>]) :
        ks \in UNION {Arrangements(KeyPool, n) : n \in 1..MaxKeys}}

\* Values that are no JSON object.
NonObjectInputs == {Null, Bool(FALSE), Bool(TRUE), Num(1), Str("a"), Arr(<<>>)}

\* The increasing sequence of the numbers in S.
RECURSIVE Sorted(_)
Sorted(S) ==
    IF S = {} THEN <<>>
    ELSE LET m == CHOOSE x \in S : \A y \in S : x <= y IN <<m>> \o Sorted(S \ {m})

---------------------------------------------------------------------------
\* "properties" schemas: up to MaxProps of the names, declared in the order of
\* Names, all strings or all nulls, with every "required" list over them.
MaxProps == 3
Names == <<"a", "b", "c", "d", "e">>
ValueTypes == {"string", "null"}

PropertyMaps ==
    UNION {{[i \in 1..Len(Sorted(S)) |-> <<Names[Sorted(S)[i]], TypeSchema(ty)>>] :
                ty \in ValueTypes} : S \in SUBSET (1..MaxProps)}

\* The lists of property names, alone and followed by a name that is no property.
RequiredLists(props) ==
    UNION {{[i \in 1..Len(Sorted(S)) |-> Str(props[Sorted(S)[i]][1])] \o extra :
               S \in SUBSET (1..Len(props))} : extra \in {<<>>, <<Str("z")>>}}

PropsInputs ==
    UNION {{Obj(<< <<"type", Str("object")>>, <<"properties", Obj(props)>> >>)}
           \cup {Obj(<< <<"type", Str("object")>>, <<"properties", Obj(props)>>,
                        <<"required", Arr(req)>> >>) : req \in RequiredLists(props)} :
           props \in PropertyMaps}

---------------------------------------------------------------------------
\* Schemas around a sub-schema that fails to compile, MaxWrap levels deep.
MaxWrap == 2

RefNode == Obj(<< <<"$ref", Str("#")>> >>)
FailingSchemas ==
    {Bool(FALSE), Str("a"), RefNode, TypeSchema("t"), Obj(<< <<"title", Str("t")>> >>),
     Obj(<< <<"type", Str("string")>>, <<"minLength", Num(2)>>, <<"maxLength", Num(1)>> >>)}

Wrappers(X) ==
    {Obj(<< <<"properties", Obj(<< <<"a", TypeSchema("null")>>, <<"b", X>> >>)>> >>),
     Obj(<< <<"properties", Obj(<< <<"a", X>> >>)>>, <<"required", Arr(<<Str("a")>>)>> >>),
     Obj(<< <<"allOf", Arr(<<X>>)>> >>),
     Obj(<< <<"anyOf", Arr(<<TypeSchema("null"), X>>)>> >>),
     Obj(<< <<"oneOf", Arr(<<X>>)>> >>),
     Obj(<< <<"prefixItems", Arr(<<TypeSchema("integer"), X>>)>> >>),
     Obj(<< <<"type", Str("array")>>, <<"items", X>> >>),
     Obj(<< <<"type", Str("object")>>, <<"additionalProperties", X>> >>)}

RECURSIVE Wrapped(_, _)
Wrapped(S, n) == IF n = 0 THEN S ELSE Wrapped(UNION {Wrappers(X) : X \in S}, n - 1)

WrappedInputs ==
    UNION {Wrapped(FailingSchemas \cup {TypeSchema("null")}, n) : n \in 1..MaxWrap}

---------------------------------------------------------------------------
\* Typed schemas with a bound pair: each bound absent or 0..Max.
MaxLen == 5
MaxItems == 3
MaxDigits == 3

\* The entry <<key, n>> of a schema, or no entry when o is None.
Entry(key, o) == IF IsSome(o) THEN << <<key, Num(o[1])>> >> ELSE <<>>

Optional(n) == {None} \cup {Some(i) : i \in 0..n}

StringInputs ==
    {Obj(<< <<"type", Str("string")>> >> \o Entry("minLength", m) \o Entry("maxLength", M)) :
        m \in Optional(MaxLen), M \in Optional(MaxLen)}

IntegerInputs ==
    {Obj(<< <<"type", Str("integer")>> >> \o Entry("minDigits", m) \o Entry("maxDigits", M)) :
        m \in Optional(MaxDigits), M \in Optional(MaxDigits)}

\* Number schemas with bounds on the digits of the integer and fraction parts.
NumberInputs ==
    {Obj(<< <<"type", Str("number")>> >> \o Entry("maxDigitsInteger", I)
            \o Entry("minDigitsFraction", m) \o Entry("maxDigitsFraction", M)) :
        I \in Optional(1), m \in Optional(MaxDigits), M \in Optional(MaxDigits)}

ItemSchemas == {<<>>, << <<"items", TypeSchema("null")>> >>}

ArrayInputs ==
    {Obj(<< <<"type", Str("array")>> >> \o Entry("minItems", m) \o Entry("maxItems", M) \o items) :
        m \in Optional(MaxItems), M \in Optional(MaxItems), items \in ItemSchemas}

ValueSchemas == {<<>>, << <<"additionalProperties", TypeSchema("null")>> >>}

ObjectInputs ==
    {Obj(<< <<"type", Str("object")>> >> \o Entry("minProperties", m)
            \o Entry("maxProperties", M) \o values) :
        m \in Optional(MaxItems), M \in Optional(MaxItems), values \in ValueSchemas}

---------------------------------------------------------------------------
\* Unconstrained arrays and objects with a "depth" key, alone and nested.
MaxDepthKey == 3

DepthSchemas == {TypeDepthSchema(t, d) : t \in {"array", "object"}, d \in 0..MaxDepthKey}

DepthInputs ==
    DepthSchemas
    \cup {TypeSchema("array"), TypeSchema("object")}
    \cup {Obj(<< <<"type", Str("array")>>, <<"items", X>> >>) : X \in DepthSchemas}
    \cup {Obj(<< <<"prefixItems", Arr(<<Obj(<<>>), X>>)>> >>) : X \in DepthSchemas}

---------------------------------------------------------------------------
\* "enum" schemas: up to MaxEnum literals of the pool, and values that are no array.
MaxEnum == 2

ScalarLiterals ==
    {Str("red"), Str("a.b"), Str("q\"t"), Str("x|y"), Num(42), Num(-1), Bool(TRUE), Bool(FALSE),
     Null}

CompositeLiterals == {Arr(<<Num(1)>>), Obj(<<>>)}

EnumInputs ==
    {Obj(<< <<"enum", Arr(lits)>> >>) :
        lits \in UNION {[1..n -> ScalarLiterals \cup CompositeLiterals] : n \in 0..MaxEnum}}
    \cup {Obj(<< <<"enum", v>> >>) : v \in {Str("red"), Num(1), Null, Obj(<<>>)}}

\* String schemas with each combination of a length bound, a pattern and a format.
PatternValues == {"^[a-z]+$", "[a-z]+", "^[a-z]+", "[a-z]+$"}
FormatValues == {"date-time", "date", "time", "uuid", "email"}

OptionalKey(key, values) == {<<>>} \cup {<< <<key, Str(v)>> >> : v \in values}

StringFormInputs ==
    {Obj(<< <<"type", Str("string")>> >> \o Entry("minLength", m) \o Entry("maxLength", M)
            \o pat \o fmt) :
        m \in {None, Some(1)}, M \in {None, Some(2)},
        pat \in OptionalKey("pattern", PatternValues), fmt \in OptionalKey("format", FormatValues)}

\* "const" schemas of each literal of the pool.
ConstInputs == {Obj(<< <<"const", v>> >>) : v \in ScalarLiterals \cup CompositeLiterals}

Inputs ==
    DispatchInputs \cup NonObjectInputs \cup {Obj(<<>>)} \cup PropsInputs \cup WrappedInputs
    \cup StringInputs \cup IntegerInputs \cup NumberInputs \cup ArrayInputs \cup ObjectInputs \cup DepthInputs
    \cup EnumInputs \cup ConstInputs \cup StringFormInputs

\* The whitespace_pattern argument: None, or an override.
WsOptions == {None, Some(<<"\\s", "*">>), Some(<<"[ ]">>)}

(***************************************************************************)
(* One top-level call of to_regex, step by step: the classification of the *)
(* node, then the arm of the match on the keyword.                         *)
(***************************************************************************)
NoResult == [kind |-> "none", re |-> <<>>, err |-> "", depth |-> 0]

whitespace_pattern == unwrap_or(wsOpt, WHITESPACE)

Init ==
    /\ schema \in Inputs
    /\ wsOpt \in WsOptions
    /\ pc = "call"
    /\ keyword = "None"
    /\ result = NoResult

Finish(r) ==
    /\ result' = r
    /\ pc' = "done"
    /\ UNCHANGED <<schema, wsOpt, keyword>>

\* match json { _ => Err(...) }
NotAnObject ==
    /\ pc = "call"
    /\ ~IsObj(schema)
    /\ Finish(Err(InvalidSchema, 1))

\* find_map found none of the keys: the ok_or_else error
NoKeyword ==
    /\ pc = "call"
    /\ IsObj(schema)
    /\ ~IsSome(select_keyword(schema.obj))
    /\ Finish(Err(UnsupportedSchema, 1))

SelectKeyword ==
    /\ pc = "call"
    /\ IsObj(schema)
    /\ IsSome(select_keyword(schema.obj))
    /\ keyword' = select_keyword(schema.obj)[1]
    /\ pc' = "handle"
    /\ UNCHANGED <<schema, wsOpt, result>>

Arm(kw) == pc = "handle" /\ keyword = kw

\* The results of the calls the handler makes back into to_regex.
Sub(schemas) == {collect_to_regex(schemas, whitespace_pattern)}

HandleProperties ==
    /\ Arm("Properties")
    /\ \E sub \in Sub(properties_calls(schema.obj)) :
          Finish(Frame(handle_properties(schema.obj, whitespace_pattern, sub)))

HandleAllOf ==
    /\ Arm("AllOf")
    /\ \E sub \in Sub(all_of_calls(schema.obj)) :
          Finish(Frame(handle_all_of(schema.obj, whitespace_pattern, sub)))

HandleAnyOf ==
    /\ Arm("AnyOf")
    /\ \E sub \in Sub(any_of_calls(schema.obj)) :
          Finish(Frame(handle_any_of(schema.obj, whitespace_pattern, sub)))

HandleOneOf ==
    /\ Arm("OneOf")
    /\ \E sub \in Sub(one_of_calls(schema.obj)) :
          Finish(Frame(handle_one_of(schema.obj, whitespace_pattern, sub)))

HandlePrefixItems ==
    /\ Arm("PrefixItems")
    /\ \E sub \in Sub(prefix_items_calls(schema.obj)) :
          Finish(Frame(handle_prefix_items(schema.obj, whitespace_pattern, sub)))

HandleEnum == Arm("Enum") /\ Finish(Frame(handle_enum(schema.obj)))

HandleConst == Arm("Const") /\ Finish(Frame(handle_const(schema.obj)))

HandleType ==
    /\ Arm("Type")
    /\ \E sub \in Sub(type_calls(schema.obj)) :
          Finish(Frame(handle_type(schema.obj, whitespace_pattern, sub)))

HandleEmptyObject ==
    /\ Arm("EmptyObject")
    /\ \E sub \in Sub(empty_object_calls) :
          Finish(Frame(handle_empty_object(whitespace_pattern, sub)))

\* val => Err(...): the arm SchemaKeyword::Ref falls to
UnsupportedArm == Arm("Ref") /\ Finish(Frame(Err(UnsupportedKeyword, 0)))

Next ==
    \/ NotAnObject
    \/ NoKeyword
    \/ SelectKeyword
    \/ HandleProperties
    \/ HandleAllOf
    \/ HandleAnyOf
    \/ HandleOneOf
    \/ HandlePrefixItems
    \/ HandleEnum
    \/ HandleConst
    \/ HandleType
    \/ HandleEmptyObject
    \/ UnsupportedArm

Spec == Init /\ [][Next]_vars

\* The steps above are the function the handlers call back into.
StepsAgreeWithToRegex == pc = "done" => result = to_regex(schema, wsOpt)

(***************************************************************************)
(* Properties of the dispatcher.                                           *)
(***************************************************************************)

\* The keys of the dispatcher in the order they are tried, with the handler of each.
DispatchOrder ==
    << <<"properties", "Properties">>, <<"allOf", "AllOf">>, <<"anyOf", "AnyOf">>,
       <<"oneOf", "OneOf">>, <<"prefixItems", "PrefixItems">>, <<"enum", "Enum">>,
       <<"const", "Const">>, <<"$ref", "Ref">>, <<"type", "Type">> >>

PresentKeys(obj) == {i \in 1..Len(DispatchOrder) : contains_key(obj, DispatchOrder[i][1])}

FirstPresent(obj) == CHOOSE i \in PresentKeys(obj) : \A j \in PresentKeys(obj) : i <= j

\* C1: for a non-empty object node the handler is the one of the first key of
\* properties, allOf, anyOf, oneOf, prefixItems, enum, const, $ref, type that the
\* node holds, whatever other keys it holds and in whatever order; a node
\* holding none of them gives the UnsupportedSchema error.
C1_FirstPresentKeyDispatches ==
    (IsObj(schema) /\ Len(schema.obj) > 0 /\ pc # "call") =>
        IF PresentKeys(schema.obj) = {}
        THEN pc = "done" /\ keyword = "None" /\ result = Err(UnsupportedSchema, 1)
        ELSE keyword = DispatchOrder[FirstPresent(schema.obj)][2]

\* A node written as {"type": .., "enum": ..} was compiled by the enum handler.
C1_Witness ==
    /\ pc = "done"
    /\ IsObj(schema)
    /\ Len(schema.obj) = 2
    /\ schema.obj[1][1] = "type"
    /\ schema.obj[2][1] = "enum"
    /\ keyword = "Enum"
    /\ result.kind = "ok"

\* The sub-schemas of a node: the values the handlers compile.
SubSchemas(v) ==
    IF ~IsObj(v) THEN {}
    ELSE UNION {LET k == v.obj[i][1]
                    x == v.obj[i][2]
                IN  IF k = "properties" /\ IsObj(x) THEN {x.obj[j][2] : j \in 1..Len(x.obj)}
                    ELSE IF k \in {"allOf", "anyOf", "oneOf", "prefixItems"} /\ IsArr(x)
                         THEN {x.arr[j] : j \in 1..Len(x.arr)}
                    ELSE IF k \in {"items", "additionalProperties"} THEN {x}
                    ELSE {} : i \in 1..Len(v.obj)}

\* The node and the nodes below it.
RECURSIVE Nodes(_)
Nodes(v) == {v} \cup UNION {Nodes(x) : x \in SubSchemas(v)}

\* A node that holds "$ref" and none of the seven keys tried before it.
RefSelected(v) ==
    /\ IsObj(v)
    /\ contains_key(v.obj, "$ref")
    /\ \A i \in 1..7 : ~contains_key(v.obj, DispatchOrder[i][1])

\* C2: a node whose selected keyword is $ref compiles to the UnsupportedKeyword
\* error, at the top of the schema and at every level below it, without a
\* panic and without a further call.
C2_RefIsUnsupportedKeyword ==
    /\ (pc = "done" /\ RefSelected(schema)) => result = Err(UnsupportedKeyword, 1)
    /\ \A n \in Nodes(schema) : RefSelected(n) => to_regex(n, wsOpt) = Err(UnsupportedKeyword, 1)

\* A schema compiled with a $ref node below its top.
C2_Witness ==
    /\ pc = "done"
    /\ \E n \in Nodes(schema) \ {schema} : RefSelected(n)
    /\ result.kind = "err"
    /\ result.err = UnsupportedKeyword

(***************************************************************************)
(* Properties of handle_properties.                                        *)
(***************************************************************************)

\* The whitespace a document may put where the pattern has its whitespace.
Spaces == IF wsOpt = Some(<<"[ ]">>) THEN {<<" ">>} ELSE {<<>>, <<" ">>}

\* A value of the type of a property.
ValueText(s) ==
    IF s = TypeSchema("string") THEN <<"\"", "x", "\"">> ELSE <<"n", "u", "l", "l">>

\* The document {"k1": v1, "k2": v2, ..} for the properties props, sp at each gap.
ObjectText(props, sp) ==
    <<"{">>
    \o join([i \in 1..Len(props) |->
                sp \o <<"\"", props[i][1], "\"">> \o sp \o <<":">> \o sp \o ValueText(props[i][2])],
            sp \o <<",">>)
    \o sp \o <<"}">>

\* A schema of two properties and no "required" key.
TwoOptionalProperties ==
    /\ IsObj(schema)
    /\ contains_key(schema.obj, "properties")
    /\ ~contains_key(schema.obj, "required")
    /\ IsObj(get(schema.obj, "properties")[1])
    /\ Len(get(schema.obj, "properties")[1].obj) = 2

\* C3: with properties a then b and no "required", the pattern accepts {},
\* {a}, {b} and {a, b} and rejects {b, a}.
C3_DeclarationOrder ==
    (pc = "done" /\ TwoOptionalProperties) =>
        LET props == get(schema.obj, "properties")[1].obj
            a == props[1]
            b == props[2]
        IN  /\ result.kind = "ok"
            /\ \A sp \in Spaces :
                  /\ is_match(result.re, ObjectText(<<>>, sp))
                  /\ is_match(result.re, ObjectText(<<a>>, sp))
                  /\ is_match(result.re, ObjectText(<<b>>, sp))
                  /\ is_match(result.re, ObjectText(<<a, b>>, sp))
                  /\ ~is_match(result.re, ObjectText(<<b, a>>, sp))

\* C4: a handler returns the failure of a sub-schema's compilation as an
\* error value; no schema makes the compiler panic.
C4_FailuresAreErrors ==
    pc = "done" =>
        /\ result.kind # "panic"
        /\ (\E n \in SubSchemas(schema) : to_regex(n, wsOpt).kind # "ok") => result.kind = "err"

(***************************************************************************)
(* Properties of the bound pairs.                                          *)
(***************************************************************************)

\* The quoted string of n inner characters; with esc its first is the pair \".
StringText(n, esc) ==
    <<"\"">>
    \o Flatten([i \in 1..n |-> IF esc /\ i = 1 THEN <<"\\", "\"">> ELSE <<"a">>])
    \o <<"\"">>

\* The type of a typed schema holds key with a natural number.
HasBound(key) == IsObj(schema) /\ IsSome(as_u64(get(schema.obj, key)))

Bound(key) == as_u64(get(schema.obj, key))[1]

IsTyped(t) == IsObj(schema) /\ select_keyword(schema.obj) = Some("Type")
              /\ get(schema.obj, "type") = Some(Str(t))

\* C5: a string schema with minLength m and maxLength M compiles, when M >= m,
\* to the quoted inner-character class repeated {m,M}, which matches a quoted
\* string iff it has m..M inner characters; when M < m it fails with InvalidBounds.
C5_StringLengthBounds ==
    (pc = "done" /\ IsTyped("string") /\ HasBound("minLength") /\ HasBound("maxLength")) =>
        LET m == Bound("minLength")
            M == Bound("maxLength")
        IN  IF M < m THEN result = Err(InvalidBoundsLength, 1)
            ELSE /\ result = Ok(<<"\"">> \o STRING_INNER \o <<"{">> \o Digits(m) \o <<",">>
                                \o Digits(M) \o <<"}", "\"">>, 1)
                 /\ \A n \in 0..(MaxLen + 1) : \A esc \in BOOLEAN :
                       is_match(result.re, StringText(n, esc)) <=> (m <= n /\ n <= M)

\* The schema {"type": "string", "minLength": 2, "maxLength": 5} was compiled.
C5_Witness ==
    /\ pc = "done"
    /\ IsTyped("string")
    /\ HasBound("minLength") /\ Bound("minLength") = 2
    /\ HasBound("maxLength") /\ Bound("maxLength") = 5
    /\ result.kind = "ok"
    /\ is_match(result.re, StringText(2, FALSE))
    /\ ~is_match(result.re, StringText(6, FALSE))

\* The bound pairs of each type.
BoundPairs ==
    {<<"string", "minLength", "maxLength">>, <<"integer", "minDigits", "maxDigits">>,
     <<"number", "minDigitsInteger", "maxDigitsInteger">>,
     <<"number", "minDigitsFraction", "maxDigitsFraction">>,
     <<"number", "minDigitsExponent", "maxDigitsExponent">>,
     <<"array", "minItems", "maxItems">>, <<"object", "minProperties", "maxProperties">>}

\* C6: a typed schema holding a bound pair with max < min, the item counts of
\* an array and the property counts of an object included, fails with
\* InvalidBounds and yields no pattern.
C6_InvalidBoundsForEveryPair ==
    pc = "done" =>
        \A p \in BoundPairs :
            (IsTyped(p[1]) /\ HasBound(p[2]) /\ HasBound(p[3]) /\ Bound(p[3]) < Bound(p[2])) =>
                /\ result.kind = "err"
                /\ result.err \in {InvalidBoundsLength, InvalidBoundsDigits}

(***************************************************************************)
(* Termination and recursion depth.                                        *)
(***************************************************************************)

\* The nesting depth of a schema: the longest chain of nodes in it.
RECURSIVE Nesting(_)
Nesting(v) ==
    IF SubSchemas(v) = {} THEN 1
    ELSE 1 + (CHOOSE d \in {Nesting(x) : x \in SubSchemas(v)} :
                 \A e \in {Nesting(x) : x \in SubSchemas(v)} : e <= d)

\* The expansion budget of a node: its "depth" key, or the default.
DefaultBudget == 2
Budget(v) ==
    IF IsObj(v) /\ IsSome(as_u64(get(v.obj, "depth"))) THEN as_u64(get(v.obj, "depth"))[1]
    ELSE DefaultBudget

\* The largest budget of the nodes of the schema.
LargestBudget ==
    CHOOSE b \in {Budget(n) : n \in Nodes(schema)} : \A c \in {Budget(n) : n \in Nodes(schema)} : c <= b

\* C7 as stated: the recursion depth of a call is at most the nesting depth
\* of its schema plus 2, whatever keys the schema holds.
C7_DepthAtMostNestingPlusTwo ==
    pc = "done" => result.depth <= Nesting(schema) + 2

\* C7: every call returns, and its recursion depth is at most the nesting
\* depth of the schema plus 2 * (B + 1) + 1, B being the largest expansion
\* budget of its nodes (the "depth" key of a node, 2 where it has none): a
\* level of the expansion is an anyOf frame and a type frame, and the empty
\* schema adds the frame of its {"type": T} call.
C7_DepthBoundedByBudget ==
    /\ to_regex(schema, wsOpt).kind \in {"ok", "err", "panic"}
    /\ pc = "done" =>
          /\ result.depth >= 1
          /\ result.depth <= Nesting(schema) + 2 * (LargestBudget + 1) + 1

\* The empty schema was compiled, eight frames deep.
C7_Witness ==
    /\ pc = "done"
    /\ schema = Obj(<<>>)
    /\ result.kind = "ok"
    /\ result.depth = Nesting(schema) + 2 * (LargestBudget + 1) + 1

(***************************************************************************)
(* Properties of the empty containers and of the literals.                 *)
(***************************************************************************)

\* Texts of arrays: [], [ ], [  ], [1], [ 1 ], [1,1].
ArrayTexts ==
    {<<"[", "]">>, <<"[", " ", "]">>, <<"[", " ", " ", "]">>, <<"[", "1", "]">>,
     <<"[", " ", "1", " ", "]">>, <<"[", "1", ",", "1", "]">>}

\* An array schema without items whose maxItems is below 1.
EmptyOnlyArray ==
    /\ IsTyped("array")
    /\ ~contains_key(schema.obj, "items")
    /\ HasBound("maxItems")
    /\ Bound("maxItems") < 1

\* C8: an array schema without items and with maxItems < 1 compiles to
\* \[ whitespace \] with the whitespace pattern once: it matches the empty
\* array with the whitespace one occurrence allows, and no other text.
C8_EmptyArrayPattern ==
    (pc = "done" /\ EmptyOnlyArray) =>
        /\ result = Ok(<<"\\[">> \o whitespace_pattern \o <<"\\]">>, 1)
        /\ \A t \in ArrayTexts :
              is_match(result.re, t) <=> is_match(<<"\\[">> \o whitespace_pattern \o <<"\\]">>, t)

SevenTypes == <<"boolean", "null", "number", "integer", "string", "array", "object">>

\* The seven fragments, each between open and ")", joined by |.
SevenFragments(open) ==
    join([i \in 1..7 |-> <<open>> \o to_regex(TypeSchema(SevenTypes[i]), wsOpt).re \o <<")">>],
         <<"|">>)

\* C9 as stated: the empty schema compiles to the seven fragments of boolean,
\* null, number, integer, string, array, object, each the pattern of
\* {"type": T} in a non-capturing group (?:...), joined by |.
C9_NonCapturingGroups ==
    (pc = "done" /\ schema = Obj(<<>>)) =>
        result.kind = "ok" /\ result.re = SevenFragments("(?:")

\* C9: the empty schema compiles to the seven fragments of boolean, null,
\* number, integer, string, array, object, each the pattern of {"type": T}
\* in a capturing group (...), joined by |.
C9_CapturingGroups ==
    (pc = "done" /\ schema = Obj(<<>>)) =>
        result.kind = "ok" /\ result.re = SevenFragments("(")

\* The empty schema was compiled.
C9_Witness ==
    /\ pc = "done"
    /\ schema = Obj(<<>>)
    /\ keyword = "EmptyObject"
    /\ result.kind = "ok"
    /\ Len(result.re) > 7

\* The canonical JSON text of each scalar literal of the pool.
CanonText(lit) ==
    IF lit = Str("a") THEN <<"\"", "a", "\"">>
    ELSE IF lit = Str("red") THEN <<"\"", "r", "e", "d", "\"">>
    ELSE IF lit = Str("a.b") THEN <<"\"", "a", ".", "b", "\"">>
    ELSE IF lit = Str("q\"t") THEN <<"\"", "q", "\\", "\"", "t", "\"">>
    ELSE IF lit = Str("x|y") THEN <<"\"", "x", "|", "y", "\"">>
    ELSE IF lit = Num(42) THEN <<"4", "2">>
    ELSE IF lit = Num(1) THEN <<"1">>
    ELSE IF lit = Num(-1) THEN <<"-", "1">>
    ELSE IF lit = Bool(TRUE) THEN <<"t", "r", "u", "e">>
    ELSE IF lit = Bool(FALSE) THEN <<"f", "a", "l", "s", "e">>
    ELSE <<"n", "u", "l", "l">>

\* The canonical texts, and texts that differ from one of them in one place.
LiteralTexts ==
    {CanonText(lit) : lit \in ScalarLiterals \cup {Str("a")}}
    \cup {<<"\"", "a", "x", "b", "\"">>, <<"\"", "x", "\"">>, <<"\"", "y", "\"">>,
          <<"\"", "x">>, <<"y", "\"">>, <<"\"", "q", "\"", "t", "\"">>, <<"r", "e", "d">>,
          <<"\"", "r", "e", "d">>, <<"4">>, <<"1">>, <<"4", "2", "2">>, <<"t", "r", "u">>, <<>>}

\* The branches of a pattern that is one capturing group around an alternation.
Branches(re) ==
    LET p == Regex_new(re)
    IN  IF /\ p.ok
           /\ Len(p.node.xs) = 1
           /\ Len(p.node.xs[1].xs) = 1
           /\ p.node.xs[1].xs[1].t = "grp"
        THEN Some(p.node.xs[1].xs[1].x.xs)
        ELSE None

\* An enum-selected node: it holds "enum" and none of the five keys before it.
EnumSelected ==
    /\ IsObj(schema)
    /\ contains_key(schema.obj, "enum")
    /\ \A i \in 1..5 : ~contains_key(schema.obj, DispatchOrder[i][1])

\* C10: an enum of n scalar literals compiles to one group of exactly n
\* branches joined by |, in array order, branch k being the escaped canonical
\* JSON text of literal k and matching that text only; a literal that is an
\* array or an object fails the compilation with UnsupportedLiteral, and an
\* enum value that is no array fails it with an error.
C10_EnumBranches ==
    (pc = "done" /\ EnumSelected) =>
        LET v == get(schema.obj, "enum")[1]
        IN  IF ~IsArr(v) THEN result.kind = "err"
            ELSE IF \E k \in 1..Len(v.arr) : IsArr(v.arr[k]) \/ IsObj(v.arr[k])
            THEN result = Err(UnsupportedLiteralEnum, 1)
            ELSE /\ result.kind = "ok"
                 /\ IsSome(Branches(result.re))
                 /\ IF Len(v.arr) = 0 THEN result.re = <<"(", ")">>
                    ELSE /\ Len(Branches(result.re)[1]) = Len(v.arr)
                         /\ \A k \in 1..Len(v.arr) : \A t \in LiteralTexts :
                               ((Len(t) + 1) \in match_at(Branches(result.re)[1][k], t, 1))
                               <=> (t = CanonText(v.arr[k]))

\* An enum of two string literals with regex meta characters was compiled.
C10_Witness ==
    /\ pc = "done"
    /\ EnumSelected
    /\ get(schema.obj, "enum")[1] = Arr(<<Str("x|y"), Str("a.b")>>)
    /\ result.kind = "ok"
    /\ is_match(result.re, CanonText(Str("a.b")))

\* A const-selected node: it holds "const" and none of the six keys before it.
ConstSelected ==
    /\ IsObj(schema)
    /\ contains_key(schema.obj, "const")
    /\ \A i \in 1..6 : ~contains_key(schema.obj, DispatchOrder[i][1])

ConstValue == get(schema.obj, "const")[1]

IsComposite(v) == IsArr(v) \/ IsObj(v)

\* C11 as stated: a const of a scalar literal compiles to the escaped
\* canonical JSON text of the literal wrapped in one group, as enum wraps its
\* alternation; a composite const fails with UnsupportedLiteral.
C11_ConstInOneGroup ==
    (pc = "done" /\ ConstSelected) =>
        IF IsComposite(ConstValue) THEN result = Err(UnsupportedLiteralConst, 1)
        ELSE /\ result.kind = "ok"
             /\ IsSome(Branches(result.re))
             /\ \A t \in LiteralTexts : is_match(result.re, t) <=> (t = CanonText(ConstValue))

\* C11: a const of a scalar literal compiles to the escaped canonical JSON
\* text of the literal alone, with no group around it, and matches that text
\* only; a composite const fails with UnsupportedLiteral.
C11_ConstIsBareLiteral ==
    (pc = "done" /\ ConstSelected) =>
        IF IsComposite(ConstValue) THEN result = Err(UnsupportedLiteralConst, 1)
        ELSE /\ result.kind = "ok"
             /\ \A k \in 1..Len(result.re) : result.re[k] \notin {"(", "(?:", ")", "|"}
             /\ \A t \in LiteralTexts : is_match(result.re, t) <=> (t = CanonText(ConstValue))

\* The const "x|y" was compiled.
C11_Witness ==
    /\ pc = "done"
    /\ ConstSelected
    /\ ConstValue = Str("x|y")
    /\ result.kind = "ok"
    /\ is_match(result.re, CanonText(Str("x|y")))

(***************************************************************************)
(* Properties of the string handler.                                       *)
(***************************************************************************)

\* The pattern of a "pattern" key with its ^ and $ stripped when it has both.
StrippedPattern(p) ==
    IF p = "^[a-z]+$" THEN <<"[a-z]", "+">>
    ELSE IF p = "[a-z]+" THEN <<"[a-z]", "+">>
    ELSE IF p = "^[a-z]+" THEN <<"^", "[a-z]", "+">>
    ELSE <<"[a-z]", "+", "$">>

\* The fixed pattern of each supported format.
FormatPattern(f) ==
    IF f = "date-time" THEN DATE_TIME
    ELSE IF f = "date" THEN DATE
    ELSE IF f = "time" THEN TIME
    ELSE UUID

\* A string schema whose "pattern" and "format", where present, are strings.
StringSchema ==
    /\ IsTyped("string")
    /\ \A k \in {"pattern", "format"} :
          contains_key(schema.obj, k) => IsStr(get(schema.obj, k)[1])

\* The schema without the keys ks.
Without(ks) ==
    Obj(SelectSeq(schema.obj, LAMBDA kv : kv[1] \notin ks))

\* C12: the string handler takes the first of: a length bound (the bounded
\* pattern, or InvalidBounds for a pair with max < min; pattern and format
\* are then ignored, an unsupported format raises no error), a pattern
\* (quoted in a group, ^ and $ stripped when it has both; format is ignored),
\* a format (its fixed pattern, or UnsupportedFormat), the generic string.
C12_StringPriority ==
    (pc = "done" /\ StringSchema) =>
        IF contains_key(schema.obj, "minLength") \/ contains_key(schema.obj, "maxLength")
        THEN /\ result = to_regex(Without({"pattern", "format"}), wsOpt)
             /\ IF HasBound("minLength") /\ HasBound("maxLength")
                   /\ Bound("maxLength") < Bound("minLength")
                THEN result = Err(InvalidBoundsLength, 1)
                ELSE /\ result.kind = "ok"
                     /\ SubSeq(result.re, 1, Len(STRING_INNER) + 2)
                           = <<"\"">> \o STRING_INNER \o <<"{">>
                     /\ SubSeq(result.re, Len(result.re) - 1, Len(result.re)) = <<"}", "\"">>
        ELSE IF contains_key(schema.obj, "pattern")
        THEN /\ result = Ok(<<"(", "\"">> \o StrippedPattern(get(schema.obj, "pattern")[1].str)
                            \o <<"\"", ")">>, 1)
             /\ result = to_regex(Without({"format"}), wsOpt)
        ELSE IF contains_key(schema.obj, "format")
        THEN IF get(schema.obj, "format")[1].str \in {"date-time", "date", "time", "uuid"}
             THEN result = Ok(FormatPattern(get(schema.obj, "format")[1].str), 1)
             ELSE result = Err(UnsupportedFormat, 1)
        ELSE result = Ok(STRING_PATTERN, 1)

\* A schema with a length bound, a pattern and an unsupported format was compiled.
C12_Witness ==
    /\ pc = "done"
    /\ StringSchema
    /\ contains_key(schema.obj, "maxLength")
    /\ get(schema.obj, "pattern") = Some(Str("^[a-z]+$"))
    /\ get(schema.obj, "format") = Some(Str("email"))
    /\ result.kind = "ok"

(***************************************************************************)
(* Properties of handle_properties with a required property.               *)
(***************************************************************************)

\* A schema of the "properties" handler whose "properties" is an object.
PropertiesSchema ==
    /\ IsObj(schema)
    /\ contains_key(schema.obj, "properties")
    /\ IsObj(get(schema.obj, "properties")[1])
    /\ \A i \in 1..Len(get(schema.obj, "properties")[1].obj) :
          get(schema.obj, "properties")[1].obj[i][2] \in {TypeSchema(t) : t \in ValueTypes}

DeclaredProperties == get(schema.obj, "properties")[1].obj

\* The names the "required" key lists.
RequiredNames ==
    IF contains_key(schema.obj, "required") /\ IsArr(get(schema.obj, "required")[1])
    THEN {get(schema.obj, "required")[1].arr[i].str :
             i \in 1..Len(get(schema.obj, "required")[1].arr)}
    ELSE {}

DeclaredNames == {DeclaredProperties[i][1] : i \in 1..Len(DeclaredProperties)}

\* The sequences of distinct positions of the declared properties.
Selections == UNION {Arrangements(1..Len(DeclaredProperties), k) : k \in 0..Len(DeclaredProperties)}

InDeclarationOrder(sel) == \A i \in 1..(Len(sel) - 1) : sel[i] < sel[i + 1]

HoldsRequired(sel) ==
    (RequiredNames \cap DeclaredNames) \subseteq {DeclaredProperties[sel[i]][1] : i \in 1..Len(sel)}

Selected(sel) == [i \in 1..Len(sel) |-> DeclaredProperties[sel[i]]]

\* The document of props with a comma too many: at the head, at the tail or doubled.
BadCommaTexts(props, sp) ==
    LET entry(i) == sp \o <<"\"", props[i][1], "\"">> \o sp \o <<":">> \o sp \o ValueText(props[i][2])
        entries == [i \in 1..Len(props) |-> entry(i)]
    IN  {<<"{">> \o sp \o <<",">> \o join(entries, sp \o <<",">>) \o sp \o <<"}">>,
         <<"{">> \o join(entries, sp \o <<",">>) \o sp \o <<",">> \o sp \o <<"}">>}
        \cup (IF Len(props) < 2 THEN {}
              ELSE {<<"{">> \o join(entries, sp \o <<",">> \o sp \o <<",">>) \o sp \o <<"}">>})

\* The schema with the names that are no property taken off its "required".
WithoutForeignNames ==
    Obj([i \in 1..Len(schema.obj) |->
            IF schema.obj[i][1] = "required" /\ IsArr(schema.obj[i][2])
            THEN <<"required",
                   Arr(SelectSeq(schema.obj[i][2].arr, LAMBDA v : v.str \in DeclaredNames))>>
            ELSE schema.obj[i]])

\* C13: with a required property, the pattern accepts exactly the objects
\* that hold every required property and any of the others, in declaration
\* order, with one comma between neighbours and none at the head or tail;
\* a name in "required" that is no property changes nothing.
C13_RequiredProperties ==
    (pc = "done" /\ PropertiesSchema) =>
        /\ result = to_regex(WithoutForeignNames, wsOpt)
        /\ (RequiredNames \cap DeclaredNames # {}) =>
              /\ result.kind = "ok"
              /\ LET p == Regex_new(result.re)
                     matches(t) == (Len(t) + 1) \in match_at(p.node, t, 1)
                 IN  /\ p.ok
                     /\ \A sp \in Spaces : \A sel \in Selections :
                           /\ matches(ObjectText(Selected(sel), sp))
                                 <=> (InDeclarationOrder(sel) /\ HoldsRequired(sel))
                           /\ \A t \in BadCommaTexts(Selected(sel), sp) : ~matches(t)

\* Properties a, b, c with b required, and a name that is no property, were compiled.
C13_Witness ==
    /\ pc = "done"
    /\ PropertiesSchema
    /\ Len(DeclaredProperties) = 3
    /\ RequiredNames = {DeclaredProperties[2][1], "z"}
    /\ result.kind = "ok"
    /\ is_match(result.re, ObjectText(Selected(<<2>>), <<>>))
    /\ ~is_match(result.re, ObjectText(Selected(<<1, 3>>), <<>>))

---------------------------------------------------------------------------
\* The depth-limited type union of handle_array_type and handle_object_type

\* An array without items, or an object without additionalProperties or with
\* additionalProperties true, and without a bound on its number of members.
UnconstrainedContainer ==
    /\ IsObj(schema)
    /\ \/ IsTyped("array") /\ ~contains_key(schema.obj, "items")
       \/ IsTyped("object") /\ object_is_unconstrained(schema.obj)
    /\ \A key \in {"minItems", "maxItems", "minProperties", "maxProperties"} :
          ~contains_key(schema.obj, key)

ContainerType == get(schema.obj, "type")[1].str

\* The text the whitespace pattern needs at a gap: none, or the one space of "[ ]".
Gap == IF wsOpt = Some(<<"[ ]">>) THEN <<" ">> ELSE <<>>

\* One text of each scalar type: boolean, null, integer, number, string.
ScalarTexts ==
    {<<"t", "r", "u", "e">>, <<"n", "u", "l", "l">>, <<"7">>, <<"1", ".", "5">>,
     <<"\"", "x", "\"">>}

\* inner inside the containers kinds, outermost first: [ .. ] for an array,
\* {"a": .. } for an object.
RECURSIVE Contained(_, _)
Contained(kinds, inner) ==
    IF kinds = <<>> THEN inner
    ELSE IF Head(kinds) = "array"
    THEN <<"[">> \o Gap \o Contained(Tail(kinds), inner) \o Gap \o <<"]">>
    ELSE <<"{">> \o Gap \o <<"\"", "a", "\"">> \o Gap \o <<":">> \o Gap
         \o Contained(Tail(kinds), inner) \o Gap \o <<"}">>

\* The nestings of n containers whose outermost is of the type of the schema.
Nestings(n) == {kinds \in [1..n -> {"array", "object"}] : kinds[1] = ContainerType}

\* The alternatives of the union in the parsed pattern p of a container, in
\* order: the group of the item of \[ws((item)(,ws(item)){..})?ws\], the group
\* of the value of \{ws("key"ws:ws(value)(ws,ws..){..})?ws}.
UnionBranches(p) ==
    LET content == p.node.xs[1].xs[3].x.x.xs[1].xs
    IN  IF ContainerType = "array" THEN content[1].x.xs ELSE content[7].x.xs

\* The pattern of schema s as one alternative of a union.
BranchOf(s) == Regex_new(to_regex(s, wsOpt).re).node.xs[1]

\* The alternatives a container of budget b offers, as its handler lists them.
Offered(type, b) ==
    (IF type = "array"
     THEN <<TypeSchema("boolean"), TypeSchema("null"), TypeSchema("number"),
            TypeSchema("integer"), TypeSchema("string")>>
     ELSE <<TypeSchema("string"), TypeSchema("number"), TypeSchema("boolean"),
            TypeSchema("null")>>)
    \o (IF b > 0
        THEN <<TypeDepthSchema("object", b - 1), TypeDepthSchema("array", b - 1)>>
        ELSE <<>>)

\* Texts are accepted up to b + 1 containers deep, with a scalar of every type
\* at every level, and no deeper.
AcceptsToDepth(p, b) ==
    /\ p.ok
    /\ \A n \in 1..(b + 2) : \A kinds \in Nestings(n) : \A s \in ScalarTexts :
          ((Len(Contained(kinds, s)) + 1) \in match_at(p.node, Contained(kinds, s), 1))
          <=> (n <= b + 1)

---------------------------------------------------------------------------
\* The number of members of an array or an object

\* An array or object schema whose members may be null: no schema for them,
\* or the schema {"type": "null"}.
CountedContainer ==
    /\ IsObj(schema)
    /\ \/ /\ IsTyped("array")
          /\ get(schema.obj, "items") \in {None, Some(TypeSchema("null"))}
       \/ /\ IsTyped("object")
          /\ get(schema.obj, "additionalProperties") \in {None, Some(TypeSchema("null"))}

MinKey == IF ContainerType = "array" THEN "minItems" ELSE "minProperties"
MaxKey == IF ContainerType = "array" THEN "maxItems" ELSE "maxProperties"

\* min (absent = 0) and max of the schema.
MinCount == unwrap_or(as_u64(get(schema.obj, MinKey)), 0)
MaxCount == as_u64(get(schema.obj, MaxKey))

\* The case of the policy: max absent, or max >= 1 and max >= min.
CountsInOrder == ~IsSome(MaxCount) \/ (MaxCount[1] >= 1 /\ MaxCount[1] >= MinCount)

\* null as a member of the container: an element, or the property "a".
Member ==
    IF ContainerType = "array" THEN <<"n", "u", "l", "l">>
    ELSE <<"\"", "a", "\"">> \o Gap \o <<":">> \o Gap \o <<"n", "u", "l", "l">>

\* The text of the container with n members.
MembersText(n) ==
    LET open == IF ContainerType = "array" THEN <<"[">> ELSE <<"{">>
        close == IF ContainerType = "array" THEN <<"]">> ELSE <<"}">>
        sep == IF ContainerType = "array" THEN <<",">> \o Gap ELSE Gap \o <<",">> \o Gap
    IN  IF n = 0 THEN open \o Gap \o Gap \o close
        ELSE open \o Gap \o join([k \in 1..n |-> Member], sep) \o Gap \o close

\* The third node of the parsed \[ws(..)?ws\] and \{ws(..)?ws}: the content
\* group with its ? where it has one.
ContentNode(p) == p.node.xs[1].xs[3]

\* The repetition of the successor group, the last node of the content.
SuccessorNode(p) ==
    LET content == IF ContentNode(p).t = "rep" THEN ContentNode(p).x.x.xs[1].xs
                   ELSE ContentNode(p).x.xs[1].xs
    IN  content[Len(content)]

---------------------------------------------------------------------------
\* Digit bounds of integers and numbers

\* The integer of d digits 7, 70, 700, ..
DigitsText(d) == [k \in 1..d |-> IF k = 1 THEN "7" ELSE "0"]

\* An integer schema with maxDigits >= 2 and no minDigits.
OnlyMaxDigits ==
    /\ IsTyped("integer")
    /\ ~contains_key(schema.obj, "minDigits")
    /\ HasBound("maxDigits")
    /\ Bound("maxDigits") >= 2

\* C16: an integer schema with only maxDigits = M, M >= 2, compiles to a
\* pattern that accepts the integers without leading zero of 1 to M digits,
\* the one-digit integers included, and rejects those of more than M digits.
C16_OnlyMaxDigits ==
    (pc = "done" /\ OnlyMaxDigits) =>
        LET p == Regex_new(result.re)
        IN  /\ result.kind = "ok"
            /\ p.ok
            /\ \A d \in 1..(Bound("maxDigits") + 2) :
                  ((d + 1) \in match_at(p.node, DigitsText(d), 1)) <=> (d <= Bound("maxDigits"))

\* The token after the digit class that follows the token first in re: the
\* quantifier of the part that first starts.
QuantifierAfter(re, first) == re[(CHOOSE i \in 1..Len(re) : re[i] = first) + 2]

\* 7.0, 7.00, .. with d digits in the fraction part.
FractionText(d) == <<"7", ".">> \o [k \in 1..d |-> "0"]

\* C17: the integer and number handlers emit an open quantifier (* for the
\* integer part, + for the fraction part) only when both bounds of the part
\* are absent from the schema, and a bound that is present limits the digit
\* count also when its adjusted value is 0: an integer schema with maxDigits
\* M >= 1 accepts no integer of more than M digits, and a number schema with
\* maxDigitsFraction k accepts no fraction part of more than k digits.
C17_PresentBoundLimits ==
    (pc = "done" /\ result.kind = "ok") =>
        LET p == Regex_new(result.re)
        IN  /\ IsTyped("integer") =>
                  /\ QuantifierAfter(result.re, "[1-9]") = "*" =>
                        (~contains_key(schema.obj, "minDigits")
                         /\ ~contains_key(schema.obj, "maxDigits"))
                  /\ (HasBound("maxDigits") /\ Bound("maxDigits") >= 1) =>
                        \A d \in (Bound("maxDigits") + 1)..(Bound("maxDigits") + 2) :
                            (d + 1) \notin match_at(p.node, DigitsText(d), 1)
            /\ IsTyped("number") =>
                  /\ QuantifierAfter(result.re, "[1-9]") = "*" =>
                        (~contains_key(schema.obj, "minDigitsInteger")
                         /\ ~contains_key(schema.obj, "maxDigitsInteger"))
                  /\ QuantifierAfter(result.re, "\\.") = "+" =>
                        (~contains_key(schema.obj, "minDigitsFraction")
                         /\ ~contains_key(schema.obj, "maxDigitsFraction"))
                  /\ HasBound("maxDigitsFraction") =>
                        \A d \in (Bound("maxDigitsFraction") + 1)..(Bound("maxDigitsFraction") + 2) :
                            (d + 3) \notin match_at(p.node, FractionText(d), 1)

---------------------------------------------------------------------------
\* A string schema with one length bound

\* C18: a string schema with only minLength m compiles to the quoted
\* inner-character class repeated {m,} and one with only maxLength M to the
\* class repeated {0,M}, the lower bound written; the pattern compiles and
\* matches a quoted string iff it has at least m resp. at most M inner
\* characters.
C18_OneLengthBound ==
    (pc = "done" /\ IsTyped("string")
     /\ (contains_key(schema.obj, "minLength") # contains_key(schema.obj, "maxLength"))
     /\ (HasBound("minLength") \/ HasBound("maxLength"))) =>
        LET p == Regex_new(result.re)
            range == IF HasBound("minLength")
                     THEN <<"{">> \o Digits(Bound("minLength")) \o <<",", "}">>
                     ELSE <<"{", "0", ",">> \o Digits(Bound("maxLength")) \o <<"}">>
        IN  /\ result = Ok(<<"\"">> \o STRING_INNER \o range \o <<"\"">>, 1)
            /\ p.ok
            /\ \A n \in 0..(MaxLen + 1) :
                  ((n + 3) \in match_at(p.node, StringText(n, FALSE), 1))
                  <=> IF HasBound("minLength") THEN Bound("minLength") <= n
                      ELSE n <= Bound("maxLength")

---------------------------------------------------------------------------
\* The whitespace pattern

\* re[lo..hi] with w in place of every occurrence of the default [ ]? .
RECURSIVE WithWhitespace(_, _, _, _)
WithWhitespace(re, w, lo, hi) ==
    IF lo > hi THEN <<>>
    ELSE IF lo = hi
    THEN (IF re[lo] = "[ ]" THEN w
          ELSE IF lo > 1 /\ re[lo - 1] = "[ ]" THEN <<>>
          ELSE <<re[lo]>>)
    ELSE WithWhitespace(re, w, lo, (lo + hi) \div 2)
         \o WithWhitespace(re, w, ((lo + hi) \div 2) + 1, hi)

\* C19: the whitespace pattern of the top-level call reaches every handler at
\* every depth: the outcome of a call with the override W is the outcome of
\* the call with the pattern unset, W standing wherever the default [ ]?
\* stands in it, so the default appears in the output only when the argument
\* is unset.
C19_WhitespaceThreaded ==
    pc = "done" =>
        LET unset == to_regex(schema, None)
        IN  /\ result.kind = unset.kind
            /\ result.err = unset.err
            /\ result.depth = unset.depth
            /\ result.kind = "ok" =>
                  /\ result.re = WithWhitespace(unset.re, whitespace_pattern, 1, Len(unset.re))
                  /\ IsSome(wsOpt) =>
                        \A i \in 1..(Len(result.re) - 1) :
                            ~(result.re[i] = "[ ]" /\ result.re[i + 1] = "?")

\* An array of arrays was compiled with the override [ ]: the whitespace is
\* required inside the inner array as inside the outer one.
C19_Witness ==
    /\ pc = "done"
    /\ wsOpt = Some(<<"[ ]">>)
    /\ schema = Obj(<< <<"type", Str("array")>>, <<"items", TypeDepthSchema("array", 0)>> >>)
    /\ is_match(result.re, <<"[", " ", "[", " ", "7", " ", "]", " ", "]">>)
    /\ ~is_match(result.re, <<"[", " ", "[", "7", "]", " ", "]">>)
    /\ ~is_match(result.re, <<"[", "[", " ", "7", " ", "]", "]">>)

=============================================================================
